---- MODULE Spec2Model ----
(***************************************************************************)
(* A model of glo-cpplib: the value registry (glo::group), its capture     *)
(* strategies (group::object_value), and the HTTP status server            *)
(* (glo::http_status_server).                                              *)
(*                                                                         *)
(* Text is a sequence of one-character strings, so that escaping,          *)
(* formatting and parsing are computed character by character.             *)
(***************************************************************************)
EXTENDS Integers, Sequences, FiniteSets, TLC

VARIABLES
    _key_prefix,    \* group::_key_prefix, per group
    _value_mutex,   \* group::_value_mutex, per group: TRUE when the group shares the application's mutex
    _values,        \* group::_values, per group: the sequence of value entries
    _groups,        \* group::_groups, per group: the sequence of <<prefix, child>>
    _mutex,         \* group::_mutex, per group: the thread that holds it, or None
    value_mutex,    \* the application's std::mutex behind _value_mutex: its holder, or None
    mem,            \* the application's variables that the registered handles refer to
    app,            \* the application thread: its position, its critical section, its pending call
    stack,          \* per thread: the frames of its (recursive) json_format_items call
    os,             \* per thread: the stream json_format_items writes to
    delimiter,      \* per thread: the delimiter passed by reference through the recursion
    docs,           \* per thread: the previous and the latest snapshot a test-style caller kept
    parts,          \* history: per thread, the items its running snapshot has written
    calls,          \* history: per thread, its latest locked_prepare or JsonFormatter invocation
    _stop,          \* http_status_server::_stop
    _server_thread, \* http_status_server::_server_thread: the worker it owns, or None
    srv,            \* per serving thread: its position in serve_forever / handle_request, its locals
    ctl,            \* per controlling thread: its position in stop()
    conn,           \* per client: its connection to the server
    now,            \* high_resolution_clock, counted from the start of the running handle_request
    _socket,        \* http_status_server::_socket: the listening socket, or -1
    _port,          \* http_status_server::_port, a uint16_t
    bnd,            \* the constructor's call of bind(): its position, its locals, the error it threw
    net             \* the operating system: the ports in use, history of the ports ::bind was
                    \* given, and the port the socket got

group_vars == <<_key_prefix, _value_mutex, _values, _groups, _mutex, value_mutex, mem,
                app, stack, os, delimiter, docs, parts, calls>>

bind_vars == <<_socket, _port, bnd, net>>

server_vars == <<_stop, _server_thread, srv, ctl, conn, now, bind_vars>>

vars == <<group_vars, server_vars>>

-----------------------------------------------------------------------------
(* Bounds of the model. *)

\* Entries one group may hold.
MaxValues == 2
\* Child links one group may hold.
MaxLinks == 1

-----------------------------------------------------------------------------
(* Identities. *)

None == "none"
Groups == {1, 2, 3}
Root == CHOOSE g \in Groups : \A h \in Groups : g <= h
Child == CHOOSE g \in Groups : g # Root /\ \A h \in Groups \ {Root} : g <= h
Snapshotters == {"s1"}
Apps == {"a1"}
Servers == {"w1", "w2"}
Controllers == {"m1", "m2"}
Clients == {"c1", "c2"}
Threads == Snapshotters \cup Apps \cup Servers

\* The application's variables: two scalars (uint16_t, held as two bytes) and a std::string.
UIntVars == {1, 2}
StringVars == {3}
Vars == UIntVars \cup StringVars
VarType(v) == IF v \in UIntVars THEN "uint" ELSE "string"

\* A scalar is <<low byte, high byte>>; an uninitialized byte is Indeterminate.
Indeterminate == -1
Bytes == {0, 1, 7}
Word(x) == x[1] + 256 * x[2]

-----------------------------------------------------------------------------
(* Text helpers. *)

RECURSIVE Concat(_)
Concat(ss) == IF ss = <<>> THEN <<>> ELSE Head(ss) \o Concat(Tail(ss))

Digit(d) == <<"0", "1", "2", "3", "4", "5", "6", "7", "8", "9", "a", "b", "c", "d", "e", "f">>[d + 1]

\* operator<< of an unsigned integer in base b (10, or 16 under std::hex).
RECURSIVE FormatBase(_, _)
FormatBase(n, b) == IF n < b THEN <<Digit(n)>> ELSE Append(FormatBase(n \div b, b), Digit(n % b))

FormatUInt(n) == FormatBase(n, 10)

\* std::setw(w) << std::setfill('0'): pad on the left to width w, never truncate.
RECURSIVE PadLeft(_, _)
PadLeft(s, w) == IF Len(s) >= w THEN s ELSE PadLeft(<<"0">> \o s, w)

\* The value of the char c of "for (auto c : str)", for the characters the
\* model uses; "<xx>" stands for the byte 0xXX. The values are those of a
\* build whose char is signed, where the bytes from 0x80 on are negative; on a
\* build whose char is unsigned they are 128..255, which the range test of
\* escape_json rejects as well.
CharCode(c) ==
    CASE c = "<00>" -> 0
      [] c = "\t" -> 9
      [] c = "\n" -> 10
      [] c = "\r" -> 13
      [] c = "<1f>" -> 31
      [] c = " " -> 32
      [] c = "\"" -> 34
      [] c = "\\" -> 92
      [] c = "<7f>" -> 127
      [] c = "<80>" -> 128 - 256
      [] c = "<a4>" -> 164 - 256
      [] c = "<c3>" -> 195 - 256
      [] c = "<ff>" -> 255 - 256
      [] OTHER -> 97

\* Mutant: only the double quote and the backslash are escaped.
EscapeChar_quote_and_backslash(c) ==
    IF c = "\"" \/ c = "\\"
    THEN <<"\\", "u">> \o PadLeft(FormatBase(CharCode(c), 16), 4)
    ELSE <<c>>

\* escape_json: \, " and the control characters become \u00XX; everything else is copied.
EscapeChar(c) ==
    IF c = "\"" \/ c = "\\" \/ (0 <= CharCode(c) /\ CharCode(c) <= 31)
    THEN <<"\\", "u">> \o PadLeft(FormatBase(CharCode(c), 16), 4)
    ELSE <<c>>

RECURSIVE escape_json(_)
escape_json(str) == IF str = <<>> THEN <<>> ELSE EscapeChar(Head(str)) \o escape_json(Tail(str))

\* json_format for std::string and for the unsigned integers.
json_format_string(value) == <<"\"">> \o escape_json(value) \o <<"\"">>
json_format_uint(value) == FormatUInt(value)

\* json_formatter<V>: json_format of the pointee, by its type.
json_formatter(type, value) ==
    IF type = "uint" THEN json_format_uint(Word(value)) ELSE json_format_string(value)

\* The tags joined by "-".
RECURSIVE JoinTags(_, _)
JoinTags(tags, delim) ==
    IF tags = <<>> THEN <<>> ELSE delim \o Head(tags) \o JoinTags(Tail(tags), <<"-">>)

\* group::format_item_spec: everything static in the item, from the end of the
\* accumulated prefix to the colon before the value.
format_item_spec(g, key, tags, level, desc) ==
    escape_json(_key_prefix[g]) \o escape_json(key) \o <<":">> \o JoinTags(tags, <<>>)
    \o <<"\"", ",", "\"", "l", "e", "v", "e", "l", "\"", ":">> \o FormatUInt(level)
    \o <<",", "\"", "d", "e", "s", "c", "\"", ":", "\"">> \o escape_json(desc)
    \o <<"\"", ",", "\"", "v", "a", "l", "u", "e", "\"", ":">>

-----------------------------------------------------------------------------
(* Capture strategies: the object_value specializations. *)

\* A handle is [shape, var]: how the value was passed to add, and the variable it refers to.
Shapes == {"value", "pointer", "shared_ptr", "reference_wrapper"}

\* Mutant: no specialization is ever selected.
SelectKind_fallback_only(shape, type) == "fallback"

\* The specialization the enable_if conditions select: a pointer, shared_ptr or
\* reference_wrapper to a fundamental type copies while locked; everything else
\* is the fallback, which formats while locked.
SelectKind(shape, type) ==
    IF type = "uint" /\ shape \in {"pointer", "shared_ptr", "reference_wrapper"}
    THEN shape
    ELSE "fallback"

CopyKinds == {"pointer", "shared_ptr", "reference_wrapper"}

\* The constructor of object_value: the pointer specialization leaves _copy
\* uninitialized, the two others value-initialize it.
NewEntry(val, item_spec, args) ==
    LET kind == SelectKind(val.shape, VarType(val.var)) IN
    [ item_spec |-> item_spec,
      args      |-> args,    \* history: the arguments of the add that made the entry
      kind      |-> kind,
      type      |-> VarType(val.var),
      shape     |-> val.shape,
      var       |-> val.var,
      held      |-> IF val.shape = "value" THEN mem[val.var] ELSE <<>>,
      _copy     |-> IF kind = "pointer" THEN <<Indeterminate, Indeterminate>> ELSE <<0, 0>>,
      _prepared |-> <<>> ]

\* What the handle of an entry refers to now: an object passed by value was
\* copied into the entry by add, the other shapes refer to the application's variable.
Deref(e) == IF e.shape = "value" THEN e.held ELSE mem[e.var]

\* The values a read of x can yield: an uninitialized byte reads as anything.
ReadByte(b) == IF b = Indeterminate THEN Bytes ELSE {b}
ReadWord(x) == {<<lo, hi>> : lo \in ReadByte(x[1]), hi \in ReadByte(x[2])}

-----------------------------------------------------------------------------
(* A frame of json_format_items. *)

Frame(g, key_prefix, keep) ==
    [ g          |-> g,
      keep       |-> keep,   \* what the caller does with the stream when the call returns
      key_prefix |-> key_prefix,
      pc         |-> "lock",
      i          |-> 1,      \* the next entry of _values to prepare or to format
      half       |-> 1,      \* the next byte of the scalar being copied
      j          |-> 1,      \* the next child of _groups to descend into
      snap       |-> <<>>,   \* history: mem when the value lock was taken
      rendered   |-> <<>>,   \* history: per prepared entry, the text of the value it observed
      out        |-> <<>> ]  \* history: per formatted entry, the value text written

Top(t) == stack[t][Len(stack[t])]
InCall(t) == stack[t] # <<>>
SetTop(t, f) == [stack EXCEPT ![t] = [@ EXCEPT ![Len(@)] = f]]

-----------------------------------------------------------------------------
(* The application thread: it updates its variables in critical sections     *)
(* under the mutex it shares with the groups, and registers values and       *)
(* groups, inside or outside a critical section.                             *)

\* The values the application gives its variables in critical section number n.
UVal(gen) == IF gen = 0 THEN <<0, 0>> ELSE <<7, 1>>
SVal(gen) == IF gen = 0 THEN <<"a">> ELSE <<"\"">>

\* One critical section writes every variable: the scalars byte by byte, then the string.
WritePlan == << <<1, 1>>, <<1, 2>>, <<2, 1>>, <<2, 2>>, <<3, 0>> >>

NoArgs == [g |-> 0, val |-> [shape |-> "value", var |-> 0], key |-> <<>>, tags |-> <<>>,
           level |-> 0, desc |-> <<>>, child |-> 0, prefix |-> <<>>]

\* std::lock_guard<std::mutex> on the application's mutex.
app_lock(a) ==
    /\ app[a].pc = "idle"
    /\ ~app[a].locked
    /\ ~InCall(a)
    /\ value_mutex = None
    /\ value_mutex' = a
    /\ app' = [app EXCEPT ![a].locked = TRUE, ![a].k = 1, ![a].gen = 1 - @]
    /\ UNCHANGED <<_key_prefix, _value_mutex, _values, _groups, _mutex, mem,
                   stack, os, delimiter, docs, parts, calls,
                   server_vars>>

\* One store of the critical section.
app_write(a) ==
    /\ app[a].pc = "idle"
    /\ ~InCall(a)
    /\ app[a].locked
    /\ app[a].k <= Len(WritePlan)
    /\ LET v == WritePlan[app[a].k][1]
           h == WritePlan[app[a].k][2]
       IN mem' = [mem EXCEPT ![v] = IF h = 0 THEN SVal(app[a].gen)
                                     ELSE [@ EXCEPT ![h] = UVal(app[a].gen)[h]]]
    /\ app' = [app EXCEPT ![a].k = @ + 1]
    /\ UNCHANGED <<_key_prefix, _value_mutex, _values, _groups, _mutex, value_mutex,
                   stack, os, delimiter, docs, parts, calls,
                   server_vars>>

\* The end of the critical section.
app_unlock(a) ==
    /\ app[a].pc = "idle"
    /\ ~InCall(a)
    /\ app[a].locked
    /\ app[a].k > Len(WritePlan)
    /\ value_mutex' = None
    /\ app' = [app EXCEPT ![a].locked = FALSE]
    /\ UNCHANGED <<_key_prefix, _value_mutex, _values, _groups, _mutex, mem,
                   stack, os, delimiter, docs, parts, calls,
                   server_vars>>

-----------------------------------------------------------------------------
(* group::add and group::add_group. A call first waits for _mutex; the body  *)
(* runs under it and releases it, with no other wait inside.                 *)

add_call(a, g, val, key, tags, level, desc) ==
    /\ app[a].pc = "idle"
    /\ ~InCall(a)
    /\ Len(_values[g]) < MaxValues
    /\ app' = [app EXCEPT ![a].pc = "add",
                          ![a].args = [NoArgs EXCEPT !.g = g, !.val = val, !.key = key,
                                                     !.tags = tags, !.level = level,
                                                     !.desc = desc]]
    /\ UNCHANGED <<_key_prefix, _value_mutex, _values, _groups, _mutex, value_mutex, mem,
                   stack, os, delimiter, docs, parts, calls,
                   server_vars>>

\* Mutant: add does not take _mutex.
add_without_lock(a) ==
    /\ app[a].pc = "add"
    /\ LET r == app[a].args IN
       _values' = [_values EXCEPT ![r.g] =
              Append(@, NewEntry(r.val, format_item_spec(r.g, r.key, r.tags, r.level, r.desc), r))]
    /\ app' = [app EXCEPT ![a].pc = "idle", ![a].args = NoArgs]
    /\ UNCHANGED <<_key_prefix, _value_mutex, _groups, _mutex, value_mutex, mem,
                   stack, os, delimiter, docs, parts, calls,
                   server_vars>>

add(a) ==
    /\ app[a].pc = "add"
    /\ LET r == app[a].args IN
       /\ _mutex[r.g] = None
       /\ _values' = [_values EXCEPT ![r.g] =
              Append(@, NewEntry(r.val, format_item_spec(r.g, r.key, r.tags, r.level, r.desc), r))]
    /\ app' = [app EXCEPT ![a].pc = "idle", ![a].args = NoArgs]
    /\ UNCHANGED <<_key_prefix, _value_mutex, _groups, _mutex, value_mutex, mem,
                   stack, os, delimiter, docs, parts, calls,
                   server_vars>>

add_group_call(a, g, child, prefix) ==
    /\ app[a].pc = "idle"
    /\ ~InCall(a)
    /\ Len(_groups[g]) < MaxLinks
    /\ g < child    \* callers must not create cycles
    /\ app' = [app EXCEPT ![a].pc = "add_group",
                          ![a].args = [NoArgs EXCEPT !.g = g, !.child = child,
                                                     !.prefix = prefix]]
    /\ UNCHANGED <<_key_prefix, _value_mutex, _values, _groups, _mutex, value_mutex, mem,
                   stack, os, delimiter, docs, parts, calls,
                   server_vars>>

add_group(a) ==
    /\ app[a].pc = "add_group"
    /\ LET r == app[a].args IN
       /\ _mutex[r.g] = None
       /\ _groups' = [_groups EXCEPT ![r.g] = Append(@, <<r.prefix, r.child>>)]
    /\ app' = [app EXCEPT ![a].pc = "idle", ![a].args = NoArgs]
    /\ UNCHANGED <<_key_prefix, _value_mutex, _values, _mutex, value_mutex, mem,
                   stack, os, delimiter, docs, parts, calls,
                   server_vars>>

-----------------------------------------------------------------------------
(* group::json_format_items, step by step. Every step is one of thread t's   *)
(* top frame; a wait for a mutex is the guard of the step that takes it.     *)

\* A locked_prepare copy ("copy") or a JsonFormatter invocation ("format"), as
\* the history records it: on which handle, and whether the thread held the
\* value mutex at that moment.
NoCall == [shape |-> "none", type |-> "none", op |-> "none",
           value_locked |-> FALSE, has_mutex |-> FALSE]
Call(t, e, g, op) ==
    [ shape |-> e.shape, type |-> e.type, op |-> op,
      value_locked |-> (value_mutex = t), has_mutex |-> _value_mutex[g] ]

\* Mutant: _mutex is not taken.
structural_lock_missing(t, g) == _mutex

\* _mutex once thread t has locked the one of group g.
structural_lock(t, g) == [_mutex EXCEPT ![g] = t]

\* std::lock_guard<std::mutex> lock(_mutex), held until json_format_items returns.
json_format_items_lock(t) ==
    /\ InCall(t)
    /\ Top(t).pc = "lock"
    /\ _mutex[Top(t).g] = None
    /\ _mutex' = structural_lock(t, Top(t).g)
    /\ stack' = SetTop(t, [Top(t) EXCEPT !.pc = "value_lock"])
    /\ UNCHANGED <<_key_prefix, _value_mutex, _values, _groups, value_mutex, mem,
                   app, os, delimiter, docs, parts, calls,
                   server_vars>>

\* Mutant: the value mutex is never taken.
value_lock_acquire_never(t, g) == UNCHANGED value_mutex

\* if (_value_mutex) value_lock = std::unique_lock<std::mutex>(*_value_mutex)
value_lock_acquire(t, g) ==
    IF _value_mutex[g]
    THEN value_mutex = None /\ value_mutex' = t
    ELSE UNCHANGED value_mutex

json_format_items_value_lock(t) ==
    /\ InCall(t)
    /\ Top(t).pc = "value_lock"
    /\ value_lock_acquire(t, Top(t).g)
    /\ stack' = SetTop(t, [Top(t) EXCEPT !.pc = "prepare", !.i = 1, !.half = 1,
                                         !.snap = mem])
    /\ UNCHANGED <<_key_prefix, _value_mutex, _values, _groups, _mutex, mem,
                   app, os, delimiter, docs, parts, calls,
                   server_vars>>

\* object_value::locked_prepare of the fallback: _formatter(_prepared, _val).
locked_prepare_fallback(e) ==
    [e EXCEPT !._prepared = @ \o json_formatter(e.type, Deref(e))]

\* Mutant: the copy is not taken.
locked_prepare_copy_skipped(e, half) == e

\* object_value::locked_prepare of the three copying specializations:
\* _copy = *_val, one byte at a time.
locked_prepare_copy(e, half) ==
    [e EXCEPT !._copy[half] = mem[e.var][half]]

\* value->locked_prepare() for the next entry (for a scalar, its next byte).
locked_prepare(t) ==
    /\ InCall(t)
    /\ Top(t).pc = "prepare"
    /\ Top(t).i <= Len(_values[Top(t).g])
    /\ LET f == Top(t)
           e == _values[f.g][f.i]
       IN IF e.kind = "fallback"
          THEN /\ _values' = [_values EXCEPT ![f.g][f.i] = locked_prepare_fallback(e)]
               /\ calls' = [calls EXCEPT ![t] = Call(t, e, f.g, "format")]
               /\ stack' = SetTop(t, [f EXCEPT !.i = @ + 1,
                              !.rendered = Append(@, json_formatter(e.type, Deref(e)))])
          ELSE /\ _values' = [_values EXCEPT ![f.g][f.i] = locked_prepare_copy(e, f.half)]
               /\ calls' = [calls EXCEPT ![t] = Call(t, e, f.g, "copy")]
               /\ stack' = SetTop(t,
                     IF f.half = 1
                     THEN [f EXCEPT !.half = 2,
                              !.rendered = Append(@, json_formatter(e.type, mem[e.var]))]
                     ELSE [f EXCEPT !.half = 1, !.i = @ + 1])
    /\ UNCHANGED <<_key_prefix, _value_mutex, _groups, _mutex, value_mutex, mem,
                   app, os, delimiter, docs, parts,
                   server_vars>>

\* Mutant: the value lock is not released at the end of the inner block.
value_lock_release_missing(t) == UNCHANGED value_mutex

\* The end of the inner block: ~unique_lock releases the value mutex if it owns it.
value_lock_release(t) ==
    IF value_mutex = t THEN value_mutex' = None ELSE UNCHANGED value_mutex

\* Mutant: the inner block ends after the format loop: the items are written
\* under the value lock.
json_format_items_value_unlock_late(t) ==
    /\ InCall(t)
    /\ Top(t).pc = "prepare"
    /\ Top(t).i > Len(_values[Top(t).g])
    /\ UNCHANGED value_mutex
    /\ stack' = SetTop(t, [Top(t) EXCEPT !.pc = "format", !.i = 1])
    /\ UNCHANGED <<_key_prefix, _value_mutex, _values, _groups, _mutex, mem,
                   app, os, delimiter, docs, parts, calls,
                   server_vars>>

\* The end of the prepare loop and of the inner block.
json_format_items_value_unlock(t) ==
    /\ InCall(t)
    /\ Top(t).pc = "prepare"
    /\ Top(t).i > Len(_values[Top(t).g])
    /\ value_lock_release(t)
    /\ stack' = SetTop(t, [Top(t) EXCEPT !.pc = "format", !.i = 1])
    /\ UNCHANGED <<_key_prefix, _value_mutex, _values, _groups, _mutex, mem,
                   app, os, delimiter, docs, parts, calls,
                   server_vars>>

\* object_value::json_format of the fallback: the scratch stream is written
\* out, then emptied.
json_format_fallback_text(e) == e._prepared
\* Mutant: the scratch stream is not emptied.
json_format_fallback_reset_missing(e) == e
json_format_fallback_reset(e) == [e EXCEPT !._prepared = <<>>]

\* object_value::json_format of the copying specializations: _formatter on the copy.
json_format_copy_texts(e) == {json_formatter(e.type, w) : w \in ReadWord(e._copy)}

ItemOpen == <<"{", "\"", "k", "e", "y", "\"", ":", "\"">>

\* The prefixes on the chain of groups from the root of thread t's snapshot
\* down to its frame number d: each ancestor's _key_prefix, then the prefix of
\* the link the snapshot followed out of it.
RECURSIVE ChainPrefix(_, _)
ChainPrefix(t, d) ==
    IF d <= 1 THEN <<>>
    ELSE LET up == stack[t][d - 1] IN
         ChainPrefix(t, d - 1) \o _key_prefix[up.g] \o _groups[up.g][up.j - 1][1]

\* History of one written item: where it came from, what preceded its value
\* text on the stream, the value text, and what its prepare step observed.
Part(t, f, text) ==
    [ g        |-> f.g,
      i        |-> f.i,
      path     |-> ChainPrefix(t, Len(stack[t])),
      delim    |-> delimiter[t],
      head     |-> delimiter[t] \o ItemOpen \o escape_json(f.key_prefix)
                      \o _values[f.g][f.i].item_spec,
      value    |-> text,
      observed |-> f.rendered[f.i] ]

\* Mutant: the delimiter stays what the caller passed.
delimiter_after_item_unchanged(delim) == delim

\* The second loop: delimiter = ","
delimiter_after_item(delim) == <<",">>

\* The second loop: the next item is written to os.
json_format(t) ==
    /\ InCall(t)
    /\ Top(t).pc = "format"
    /\ Top(t).i <= Len(_values[Top(t).g])
    /\ LET f == Top(t)
           e == _values[f.g][f.i]
       IN \E text \in (IF e.kind = "fallback" THEN {json_format_fallback_text(e)}
                       ELSE json_format_copy_texts(e)) :
          /\ os' = [os EXCEPT ![t] = @ \o delimiter[t] \o ItemOpen
                                       \o escape_json(f.key_prefix) \o e.item_spec
                                       \o text \o <<"}">>]
          /\ delimiter' = [delimiter EXCEPT ![t] = delimiter_after_item(@)]
          /\ _values' = [_values EXCEPT ![f.g][f.i] =
                IF e.kind = "fallback" THEN json_format_fallback_reset(e) ELSE e]
          /\ calls' = IF e.kind = "fallback" THEN [calls EXCEPT ![t] = NoCall]
                      ELSE [calls EXCEPT ![t] = Call(t, e, f.g, "format")]
          /\ stack' = SetTop(t, [f EXCEPT !.i = @ + 1, !.out = Append(@, text)])
          /\ parts' = [parts EXCEPT ![t] = Append(@, Part(t, f, text))]
    /\ UNCHANGED <<_key_prefix, _value_mutex, _groups, _mutex, value_mutex, mem,
                   app, docs,
                   server_vars>>

\* Mutant: only the prefix of the link is passed down.
child_key_prefix_link_only(g, key_prefix, p) == p[1]

\* key_prefix + _key_prefix + p.first
child_key_prefix(g, key_prefix, p) == key_prefix \o _key_prefix[g] \o p[1]

\* The third loop: p.second->json_format_items(os, key_prefix + _key_prefix + p.first, delimiter).
json_format_items_descend(t) ==
    /\ InCall(t)
    /\ Top(t).pc = "format"
    /\ Top(t).i > Len(_values[Top(t).g])
    /\ Top(t).j <= Len(_groups[Top(t).g])
    /\ LET f == Top(t)
           p == _groups[f.g][f.j]
       IN stack' = [stack EXCEPT ![t] =
              Append([@ EXCEPT ![Len(@)] = [f EXCEPT !.j = @ + 1]],
                     Frame(p[2], child_key_prefix(f.g, f.key_prefix, p), f.keep))]
    /\ UNCHANGED <<_key_prefix, _value_mutex, _values, _groups, _mutex, value_mutex, mem,
                   app, os, delimiter, docs, parts, calls,
                   server_vars>>

\* Mutant: _mutex stays locked when json_format_items returns.
structural_unlock_missing(t, g) == _mutex

\* The group whose _mutex the frame releases when json_format_items returns.
structural_unlock(t, g) == [_mutex EXCEPT ![g] = IF @ = t THEN None ELSE @]

\* What a test-style caller has in hand when its snapshot returns: the stream,
\* with the history of its items and the shape of the registry (entries and
\* links are only ever appended, never removed).
Doc(t) ==
    [ text  |-> os[t],
      parts |-> parts[t],
      reg   |-> [g \in Groups |-> <<Len(_values[g]), _groups[g]>>] ]

\* The return of json_format_items: ~lock_guard releases _mutex. The return of
\* the outermost call completes the snapshot.
json_format_items_return(t) ==
    /\ InCall(t)
    /\ Top(t).pc = "format"
    /\ Top(t).i > Len(_values[Top(t).g])
    /\ Top(t).j > Len(_groups[Top(t).g])
    /\ _mutex' = structural_unlock(t, Top(t).g)
    /\ stack' = [stack EXCEPT ![t] = SubSeq(@, 1, Len(@) - 1)]
    /\ calls' = [calls EXCEPT ![t] = NoCall]
    /\ IF Len(stack[t]) = 1 /\ Top(t).keep # "http"
       THEN /\ docs' = IF Top(t).keep = "keep"
                       THEN [docs EXCEPT ![t] = Append(IF @ = <<>> THEN @ ELSE <<@[Len(@)]>>,
                                                       Doc(t))]
                       ELSE docs
            /\ os' = [os EXCEPT ![t] = <<>>]
            /\ delimiter' = [delimiter EXCEPT ![t] = <<>>]
       ELSE UNCHANGED <<docs, os, delimiter>>
    /\ parts' = IF Len(stack[t]) = 1 THEN [parts EXCEPT ![t] = <<>>] ELSE parts
    /\ UNCHANGED <<_key_prefix, _value_mutex, _values, _groups, value_mutex, mem, app,
                   server_vars>>

\* A caller takes a snapshot of group g: json_format_items(os, "", delimiter)
\* on an empty stream, with an empty delimiter. A test-style caller ("keep")
\* keeps the stream of each snapshot to compare them; another ("drop") lets
\* it go out of scope.
snapshot_call(t, g, keep) ==
    /\ ~InCall(t)
    /\ app[t].pc = "idle"
    /\ stack' = [stack EXCEPT ![t] = <<Frame(g, <<>>, keep)>>]
    /\ os' = [os EXCEPT ![t] = <<>>]
    /\ delimiter' = [delimiter EXCEPT ![t] = <<>>]
    /\ UNCHANGED <<_key_prefix, _value_mutex, _values, _groups, _mutex, value_mutex, mem,
                   app, docs, parts, calls,
                   server_vars>>

json_format_items(t) ==
    \/ json_format_items_lock(t)
    \/ json_format_items_value_lock(t)
    \/ locked_prepare(t)
    \/ json_format_items_value_unlock(t)
    \/ json_format(t)
    \/ json_format_items_descend(t)
    \/ json_format_items_return(t)

-----------------------------------------------------------------------------
(* http_status_server: the texts of its protocol.                            *)

CRLFCRLF == <<"\r", "\n", "\r", "\n">>
GET == <<"G", "E", "T">>
HTTP11 == <<"H", "T", "T", "P", "/", "1", ".", "1">>

\* If a request is not completed within this time it will be closed.
REQUEST_MAX_TIME == 2

\* error_response(message)
error_response(message) == <<"H", "T", "T", "P", "/", "1", ".", "1", " ", "4", "0", "0", " ">> \o message \o CRLFCRLF

\* The messages of do_http's error responses.
EmptyRequest == <<"e", "m", "p", "t", "y", " ", "r", "e", "q", "u", "e", "s", "t">>
MissingMethod == <<"m", "i", "s", "s", "i", "n", "g", " ", "m", "e", "t", "h", "o", "d">>
OnlyGet == <<"o", "n", "l", "y", " ", "g", "e", "t", " ", "i", "s", " ", "s", "u", "p", "p", "o", "r",
      "t", "e", "d">>
MissingUrl == <<"m", "i", "s", "s", "i", "n", "g", " ", "u", "r", "l">>
MissingVersion == <<"m", "i", "s", "s", "i", "n", "g", " ", "v", "e", "r", "s", "i", "o", "n">>
OnlyHttp11 == <<"o", "n", "l", "y", " ", "h", "t", "t", "p", "/", "1", ".", "1", " ", "i", "s", " ", "s",
      "u", "p", "p", "o", "r", "t", "e", "d">>

-----------------------------------------------------------------------------
(* std::stringstream data and char buf[2048] of handle_request. Of buf, the  *)
(* model keeps the first four bytes, the ones strncmp looks at.              *)

\* A byte of buf that nothing has written yet.
Garbage == "uninitialized"

NewStream == [str |-> <<>>, fail |-> FALSE]
NewBuf == <<Garbage, Garbage, Garbage, Garbage>>

\* recv(server, buf, sizeof(buf), 0) that received chunk: it overwrites the start of buf.
recv_into(buf, chunk) == [k \in 1..4 |-> IF k <= Len(chunk) THEN chunk[k] ELSE buf[k]]

\* data.write(buf, received): nothing is written to a stream in the fail state.
stream_write(data, chunk) == IF data.fail THEN data ELSE [data EXCEPT !.str = @ \o chunk]

\* data.seekg(-4, data.end): fails when the stream holds fewer than four bytes.
stream_seekg(data) == IF data.fail \/ Len(data.str) < 4 THEN [data EXCEPT !.fail = TRUE] ELSE data

\* data.read(buf, 4) after the seekg: the last four bytes, or nothing in the fail state.
stream_read(data, buf) ==
    IF data.fail THEN buf ELSE SubSeq(data.str, Len(data.str) - 3, Len(data.str))

\* strncmp("\r\n\r\n", buf, 4) == 0: a byte never written compares either way.
strncmp_equal(buf) ==
    IF \E k \in 1..4 : buf[k] # Garbage /\ buf[k] # CRLFCRLF[k] THEN {FALSE}
    ELSE IF \A k \in 1..4 : buf[k] = CRLFCRLF[k] THEN {TRUE}
    ELSE BOOLEAN

\* std::getline(request, token, delim) from position pos (the number of bytes
\* read so far): the token ends before the first delim, which is consumed;
\* with no delim left the token is the rest and the stream is no longer good.
getline(str, pos, delim) ==
    LET hits == {i \in (pos + 1)..Len(str) : str[i] = delim} IN
    IF hits = {}
    THEN [token |-> SubSeq(str, pos + 1, Len(str)), pos |-> Len(str), good |-> FALSE]
    ELSE LET i == CHOOSE h \in hits : \A h2 \in hits : h <= h2
         IN [token |-> SubSeq(str, pos + 1, i - 1), pos |-> i, good |-> TRUE]

\* std::string::find(what, from): the 0-based index of the first occurrence
\* at or after from, or -1 for npos.
find(str, what, from) ==
    LET hits == {i \in from..(Len(str) - Len(what)) :
                    SubSeq(str, i + 1, i + Len(what)) = what} IN
    IF hits = {} THEN 0 - 1 ELSE CHOOSE h \in hits : \A h2 \in hits : h <= h2

\* The callback parameter of url: the text after the first "callback=" if a
\* '?' or '&' precedes it, up to the next '&'.
callback_of(url) ==
    LET index == find(url, <<"c", "a", "l", "l", "b", "a", "c", "k", "=">>, 0) IN
    IF index > 0 /\ (url[index] = "?" \/ url[index] = "&")
    THEN LET end == find(url, <<"&">>, index + 9) IN
         IF end < 0 THEN SubSeq(url, index + 10, Len(url))
         ELSE SubSeq(url, index + 10, end)
    ELSE <<>>

\* The parsing part of do_http: the error message, or <<>> with the url.
do_http_parse(request) ==
    IF request.fail THEN [error |-> EmptyRequest, url |-> <<>>]
    ELSE LET method == getline(request.str, 0, " ")
             url == getline(request.str, method.pos, " ")
             version == getline(request.str, url.pos, "\r")
         IN IF ~method.good THEN [error |-> MissingMethod, url |-> <<>>]
            ELSE IF method.token # GET THEN [error |-> OnlyGet, url |-> <<>>]
            ELSE IF ~url.good THEN [error |-> MissingUrl, url |-> <<>>]
            ELSE IF ~version.good THEN [error |-> MissingVersion, url |-> <<>>]
            ELSE IF version.token # HTTP11 THEN [error |-> OnlyHttp11, url |-> <<>>]
            ELSE [error |-> <<>>, url |-> url.token]

\* What do_http writes to content before it calls json_format_items.
content_open(cb, timestamp) ==
    (IF cb # <<>> THEN cb \o <<"(">> ELSE <<>>)
    \o <<"{", "\"", "v", "e", "r", "s", "i", "o", "n", "\"", ":", "4", ",", "\"", "t", "i", "m",
      "e", "s", "t", "a", "m", "p", "\"", ":">> \o FormatUInt(timestamp) \o <<",", "\"", "i", "t", "e", "m", "s", "\"", ":", "[">>

\* What it writes after.
content_close(cb) == <<"]", "}">> \o (IF cb # <<>> THEN <<")", ";">> ELSE <<>>)

\* Mutant: Content-Length is taken before "]}" is written to content.
ok_response_length_before_close(cb, content_str) ==
    <<"H", "T", "T", "P", "/", "1", ".", "1", " ", "2", "0", "0", " ", "O", "K", "\r", "\n">>
    \o (IF cb # <<>>
        THEN <<"C", "o", "n", "t", "e", "n", "t", "-", "T", "y", "p", "e", ":", " ", "a", "p", "p", "l",
      "i", "c", "a", "t", "i", "o", "n", "/", "j", "a", "v", "a", "s", "c", "r", "i", "p", "t",
      ";", " ", "c", "h", "a", "r", "s", "e", "t", "=", "u", "t", "f", "-", "8", "\r", "\n">>
        ELSE <<"C", "o", "n", "t", "e", "n", "t", "-", "T", "y", "p", "e", ":", " ", "a", "p", "p", "l",
      "i", "c", "a", "t", "i", "o", "n", "/", "j", "s", "o", "n", ";", " ", "c", "h", "a", "r",
      "s", "e", "t", "=", "u", "t", "f", "-", "8", "\r", "\n">>)
    \o <<"C", "a", "c", "h", "e", "-", "C", "o", "n", "t", "r", "o", "l", ":", " ", "n", "o", "-",
      "c", "a", "c", "h", "e", ",", " ", "n", "o", "-", "s", "t", "o", "r", "e", "\r", "\n">>
    \o <<"C", "o", "n", "t", "e", "n", "t", "-", "L", "e", "n", "g", "t", "h", ":", " ">> \o FormatUInt(Len(content_str) - 2) \o CRLFCRLF
    \o content_str

\* The 200 response around content_str.
ok_response(cb, content_str) ==
    <<"H", "T", "T", "P", "/", "1", ".", "1", " ", "2", "0", "0", " ", "O", "K", "\r", "\n">>
    \o (IF cb # <<>>
        THEN <<"C", "o", "n", "t", "e", "n", "t", "-", "T", "y", "p", "e", ":", " ", "a", "p", "p", "l",
      "i", "c", "a", "t", "i", "o", "n", "/", "j", "a", "v", "a", "s", "c", "r", "i", "p", "t",
      ";", " ", "c", "h", "a", "r", "s", "e", "t", "=", "u", "t", "f", "-", "8", "\r", "\n">>
        ELSE <<"C", "o", "n", "t", "e", "n", "t", "-", "T", "y", "p", "e", ":", " ", "a", "p", "p", "l",
      "i", "c", "a", "t", "i", "o", "n", "/", "j", "s", "o", "n", ";", " ", "c", "h", "a", "r",
      "s", "e", "t", "=", "u", "t", "f", "-", "8", "\r", "\n">>)
    \o <<"C", "a", "c", "h", "e", "-", "C", "o", "n", "t", "r", "o", "l", ":", " ", "n", "o", "-",
      "c", "a", "c", "h", "e", ",", " ", "n", "o", "-", "s", "t", "o", "r", "e", "\r", "\n">>
    \o <<"C", "o", "n", "t", "e", "n", "t", "-", "L", "e", "n", "g", "t", "h", ":", " ">> \o FormatUInt(Len(content_str)) \o CRLFCRLF
    \o content_str

-----------------------------------------------------------------------------
(* http_status_server: connections and the serving thread.                   *)

\* The group variables no server code touches but through json_format_items.
registry_vars == <<_key_prefix, _value_mutex, _values, _groups, value_mutex, mem, app,
                   docs, parts, calls>>

\* A serving thread: its position; the locals of handle_request; which entry
\* point it is in (call: "start" for the worker, "serve_forever" or
\* "serve_once" for a thread that called it directly); the accept deadline of
\* serve_once; and what its last serve_once returned, "true" or "false", and
\* (history) on which path, with which deadline and which connection accepted;
\* and (history) for how long serve_forever has slept since it last handled a
\* connection.
\*
\* A connection: where it is on the server side ("none", "pending" in the
\* listen queue, "open" once accepted, "closed"), what the client still has to
\* send, the bytes recv can read, the client's side ("open", "closed" for an
\* orderly shutdown, "reset"), the number of bytes send has accepted, and (history)
\* on which path handle_request closed it.
NoConn == [state |-> "none", script |-> <<>>, wire |-> <<>>, peer |-> "open",
           sent |-> 0, sent_bytes |-> <<>>, why |-> "none"]

\* The sleep_time given to serve_forever, in ticks.
SleepTime == 1

\* A std::chrono::duration: a count of ticks of a period (nanoseconds,
\* microseconds or milliseconds here).
NoDuration == [count |-> 0, period |-> "us"]

\* constexpr auto MIN_POLL_WAIT = 200us, in microseconds.
MIN_POLL_WAIT == 200

\* The ratio of a period to the microsecond: std::nano is 1/1000 of it,
\* std::micro 1/1, std::milli 1000/1.
PeriodNum(period) == IF period = "ms" THEN 1000 ELSE 1
PeriodDen(period) == IF period = "ns" THEN 1000 ELSE 1

\* Integer division as C++ does it: the quotient is truncated toward zero.
Quot(a, b) == IF a >= 0 THEN a \div b ELSE 0 - ((0 - a) \div b)

\* std::chrono::duration_cast<std::chrono::microseconds>(d), as a count of
\* microseconds: the conversion truncates toward zero.
duration_cast_microseconds(d) == Quot(d.count * PeriodNum(d.period), PeriodDen(d.period))

Max(a, b) == IF a < b THEN b ELSE a

\* Mutant: the poll interval is always the minimum.
poll_wait_minimum(sleep_time) == MIN_POLL_WAIT

\* serve_forever: auto poll_wait = std::max(MIN_POLL_WAIT,
\* duration_cast<microseconds>(sleep_time) / 10), in microseconds.
poll_wait(sleep_time) == Max(MIN_POLL_WAIT, Quot(duration_cast_microseconds(sleep_time), 10))

\* serve_forever() and start() without an argument pass 50ms.
DefaultSleepTime == [count |-> 50, period |-> "ms"]

\* A thread that is in no call of the server. pending and stopped are history:
\* the connections that were waiting in the listen queue, and the stop flag,
\* when serve_once was called.
Idle == [pc |-> "off", server |-> None, request_timeout_time |-> 0, data |-> NewStream,
         buf |-> NewBuf, received |-> <<>>, cb |-> <<>>, response |-> <<>>, reply |-> <<>>,
         call |-> "none", accept_timeout_time |-> 0, ret |-> "none", why |-> "none",
         accepted |-> None, rested |-> SleepTime,
         sleep_time |-> NoDuration, poll_wait |-> 0, pending |-> {}, stopped |-> FALSE]

\* The positions of a serving thread inside handle_request.
HandlePcs == {"set_non_blocking", "read_stop", "recv", "do_http", "format",
              "send_stop", "send"}

\* The first port bind() tries when none was requested, and the last.
FirstPort == 22200
LastPort == 22240

\* The server after http_status_server() found the first port free.
Constructed ==
    /\ _socket = 3
    /\ _port = FirstPort
    /\ bnd = [pc |-> "done", port |-> 0, port_min |-> FirstPort, port_max |-> LastPort,
              error |-> "none"]
    /\ net = [in_use |-> {}, tried |-> <<FirstPort>>, bound |-> FirstPort]

\* The members as their initializers leave them, and no thread or connection.
MembersInit ==
    /\ _stop = FALSE
    /\ _server_thread = None
    /\ srv = [w \in Servers |-> Idle]
    /\ ctl = [k \in Controllers |-> "idle"]
    /\ conn = [c \in Clients |-> NoConn]
    /\ now = 0

ServerInit == MembersInit /\ Constructed

\* A client connects; script is what it is going to send, chunk by chunk.
client_connect(c, script) ==
    /\ conn[c].state = "none"
    /\ conn' = [conn EXCEPT ![c] = [NoConn EXCEPT !.state = "pending", !.script = script]]
    /\ UNCHANGED <<bind_vars, group_vars, _stop, _server_thread, srv, ctl, now>>

\* The client sends its next chunk.
client_send(c) ==
    /\ conn[c].state \in {"pending", "open"}
    /\ conn[c].peer = "open"
    /\ conn[c].script # <<>>
    /\ conn' = [conn EXCEPT ![c].wire = @ \o Head(conn[c].script), ![c].script = Tail(@)]
    /\ UNCHANGED <<bind_vars, group_vars, _stop, _server_thread, srv, ctl, now>>

\* The client shuts its side down ("closed") or aborts the connection ("reset").
client_close(c, how) ==
    /\ conn[c].state \in {"pending", "open"}
    /\ conn[c].peer = "open"
    /\ conn' = [conn EXCEPT ![c].peer = how, ![c].script = <<>>]
    /\ UNCHANGED <<bind_vars, group_vars, _stop, _server_thread, srv, ctl, now>>

\* Time passes while a request is being handled or serve_once polls accept;
\* the clock is not followed further than one tick past the deadline.
tick ==
    /\ \E w \in Servers :
           \/ srv[w].pc \in HandlePcs /\ now <= REQUEST_MAX_TIME
           \/ /\ srv[w].call = "serve_once"
              /\ srv[w].pc \in {"accept_stop", "accept"}
              /\ now <= srv[w].accept_timeout_time
    /\ now' = now + 1
    /\ UNCHANGED <<bind_vars, group_vars, _stop, _server_thread, srv, ctl, conn>>

\* ~close_guard: close(fd) when the guard goes out of scope, by return or by throw.
close_guard(c, why) ==
    [conn EXCEPT ![c] = [NoConn EXCEPT !.state = "closed", !.peer = "closed", !.why = why]]

\* Mutant: handle_request declares no guard.
server_close_missing(c, why) == conn

\* close_guard server_close(server), declared first thing in handle_request.
server_close(c, why) == close_guard(c, why)

\* Mutant: internal_serve_once returns true whatever handle_request returned.
internal_serve_once_return_true(w, ret, why) ==
    IF srv[w].call = "serve_once"
    THEN [Idle EXCEPT !.pc = "returned", !.call = "serve_once", !.ret = "true", !.why = why,
                      !.accepted = srv[w].server,
                      !.accept_timeout_time = srv[w].accept_timeout_time,
                      !.pending = srv[w].pending, !.stopped = srv[w].stopped]
    ELSE [Idle EXCEPT !.pc = "sleep", !.call = srv[w].call,
                      !.sleep_time = srv[w].sleep_time, !.poll_wait = srv[w].poll_wait]

\* Mutant: serve_forever does not sleep.
serve_forever_next_no_sleep(ret) == "loop"

\* serve_forever: if (internal_serve_once(accept_timeout, poll_wait)) sleep_for(sleep_time)
serve_forever_next(ret) == IF ret THEN "sleep" ELSE "loop"

\* internal_serve_once returns ret on the path why: to serve_once, which
\* returns it to its caller, or to serve_forever, which sleeps after true.
internal_serve_once_return(w, ret, why) ==
    IF srv[w].call = "serve_once"
    THEN [Idle EXCEPT !.pc = "returned", !.call = "serve_once",
                      !.ret = IF ret THEN "true" ELSE "false", !.why = why,
                      !.accepted = srv[w].server,
                      !.accept_timeout_time = srv[w].accept_timeout_time,
                      !.pending = srv[w].pending, !.stopped = srv[w].stopped]
    ELSE [Idle EXCEPT !.pc = serve_forever_next(ret), !.call = srv[w].call,
                      !.rested = IF srv[w].server # None THEN 0 ELSE srv[w].rested,
                      !.sleep_time = srv[w].sleep_time, !.poll_wait = srv[w].poll_wait]

\* handle_request returns ret on the path why, and internal_serve_once with it.
handle_request_return(w, ret, why) ==
    /\ conn' = server_close(srv[w].server, why)
    /\ srv' = [srv EXCEPT ![w] = internal_serve_once_return(w, ret, why)]

\* Mutant: serve_forever makes one cycle and returns.
serve_forever_loop_once(w) ==
    /\ srv[w].pc = "loop"
    /\ srv' = [srv EXCEPT ![w].pc = IF _stop \/ conn[CHOOSE c \in Clients : TRUE].state = "closed"
                                    THEN "exited" ELSE "accept_stop"]
    /\ UNCHANGED <<bind_vars, group_vars, _stop, _server_thread, ctl, conn, now>>

\* serve_forever: while (not _stop)
serve_forever_loop(w) ==
    /\ srv[w].pc = "loop"
    /\ srv' = [srv EXCEPT ![w].pc = IF _stop THEN "exited" ELSE "accept_stop"]
    /\ UNCHANGED <<bind_vars, group_vars, _stop, _server_thread, ctl, conn, now>>

\* Mutant: serve_forever returns after the first connection it handled.
serve_forever_sleep_return(w) ==
    /\ srv[w].pc = "sleep"
    /\ srv' = [srv EXCEPT ![w].pc = "exited", ![w].rested = SleepTime]
    /\ UNCHANGED <<bind_vars, group_vars, _stop, _server_thread, ctl, conn, now>>

\* serve_forever: std::this_thread::sleep_for(sleep_time)
serve_forever_sleep(w) ==
    /\ srv[w].pc = "sleep"
    /\ srv' = [srv EXCEPT ![w].pc = "loop", ![w].rested = SleepTime]
    /\ UNCHANGED <<bind_vars, group_vars, _stop, _server_thread, ctl, conn, now>>

\* internal_serve_once: if (_stop) return false
internal_serve_once_stop(w) ==
    /\ srv[w].pc = "accept_stop"
    /\ srv' = [srv EXCEPT ![w] = IF _stop THEN internal_serve_once_return(w, FALSE, "stop_accept")
                                  ELSE [@ EXCEPT !.pc = "accept"]]
    /\ UNCHANGED <<bind_vars, group_vars, _stop, _server_thread, ctl, conn, now>>

\* Mutant: a would-block accept is taken for the timeout at once.
accept_timed_out_at_once(w) == srv[w].call = "serve_once"

\* internal_serve_once: now() > accept_timeout_time
accept_timed_out(w) == srv[w].call = "serve_once" /\ now > srv[w].accept_timeout_time

\* Mutant: an accept failure is reported as a timeout is, by returning false.
internal_serve_once_accept_error_false(w) ==
    IF srv[w].call = "serve_once"
    THEN [Idle EXCEPT !.pc = "returned", !.call = "serve_once", !.ret = "false",
                      !.why = "accept_error",
                      !.accept_timeout_time = srv[w].accept_timeout_time]
    ELSE [Idle EXCEPT !.pc = "loop", !.call = srv[w].call, !.why = "accept_error",
                      !.sleep_time = srv[w].sleep_time, !.poll_wait = srv[w].poll_wait]

\* internal_serve_once: accept failed with another errno than EAGAIN:
\* throw std::runtime_error("error accepting connection"); the thread leaves
\* internal_serve_once, and serve_once or serve_forever, by the exception.
internal_serve_once_accept_error(w) ==
    [Idle EXCEPT !.pc = "thrown", !.call = srv[w].call, !.why = "accept_error"]

\* Mutant: the deadline is looked at before accept is called.
internal_serve_once_accept_deadline_first(w) ==
    /\ srv[w].pc = "accept"
    /\ \/ \E c \in Clients :
            /\ conn[c].state = "pending"
            /\ ~accept_timed_out(w)
            /\ conn' = [conn EXCEPT ![c].state = "open"]
            /\ now' = 0
            /\ srv' = [srv EXCEPT ![w] = [Idle EXCEPT !.pc = "set_non_blocking", !.server = c,
                                             !.request_timeout_time = REQUEST_MAX_TIME,
                                             !.call = srv[w].call,
                                             !.rested = srv[w].rested,
                                             !.sleep_time = srv[w].sleep_time,
                                             !.poll_wait = srv[w].poll_wait,
                                             !.pending = srv[w].pending,
                                             !.stopped = srv[w].stopped]]
       \/ /\ accept_timed_out(w) \/ \A c \in Clients : conn[c].state # "pending"
          /\ srv' = [srv EXCEPT ![w] =
                        IF accept_timed_out(w)
                        THEN internal_serve_once_return(w, FALSE, "accept_timeout")
                        ELSE [@ EXCEPT !.pc = "accept_stop"]]
          /\ UNCHANGED <<conn, now>>
       \/ /\ srv' = [srv EXCEPT ![w] = internal_serve_once_accept_error(w)]
          /\ UNCHANGED <<conn, now>>
    /\ UNCHANGED <<bind_vars, group_vars, _stop, _server_thread, ctl>>

\* internal_serve_once: accept. With a connection it enters handle_request,
\* which declares the guard and reads the clock; with EAGAIN it returns false
\* if the clock is past accept_timeout_time, and else sleeps poll_wait and
\* tries again (serve_forever's accept timeout, 24 h, is not followed: when it
\* elapses the loop calls internal_serve_once again); any other error is thrown.
internal_serve_once_accept(w) ==
    /\ srv[w].pc = "accept"
    /\ \/ \E c \in Clients :
            /\ conn[c].state = "pending"
            /\ conn' = [conn EXCEPT ![c].state = "open"]
            /\ now' = 0
            /\ srv' = [srv EXCEPT ![w] = [Idle EXCEPT !.pc = "set_non_blocking", !.server = c,
                                             !.request_timeout_time = REQUEST_MAX_TIME,
                                             !.call = srv[w].call,
                                             !.rested = srv[w].rested,
                                             !.sleep_time = srv[w].sleep_time,
                                             !.poll_wait = srv[w].poll_wait,
                                             !.pending = srv[w].pending,
                                             !.stopped = srv[w].stopped]]
       \/ /\ \A c \in Clients : conn[c].state # "pending"
          /\ srv' = [srv EXCEPT ![w] =
                        IF accept_timed_out(w)
                        THEN internal_serve_once_return(w, FALSE, "accept_timeout")
                        ELSE [@ EXCEPT !.pc = "accept_stop"]]
          /\ UNCHANGED <<conn, now>>
       \/ /\ srv' = [srv EXCEPT ![w] = internal_serve_once_accept_error(w)]
          /\ UNCHANGED <<conn, now>>
    /\ UNCHANGED <<bind_vars, group_vars, _stop, _server_thread, ctl>>

\* handle_request: set_non_blocking(server), which throws os_error when fcntl fails.
handle_request_set_non_blocking(w) ==
    /\ srv[w].pc = "set_non_blocking"
    /\ \/ /\ srv' = [srv EXCEPT ![w].pc = "read_stop"]
          /\ UNCHANGED conn
       \/ /\ conn' = server_close(srv[w].server, "throw")
          /\ srv' = [srv EXCEPT ![w] = [Idle EXCEPT !.pc = "thrown", !.call = srv[w].call]]
    /\ UNCHANGED <<bind_vars, group_vars, _stop, _server_thread, ctl, now>>

\* The read loop: if (_stop) return false
handle_request_read_stop(w) ==
    /\ srv[w].pc = "read_stop"
    /\ IF _stop THEN handle_request_return(w, FALSE, "stop_read")
       ELSE srv' = [srv EXCEPT ![w].pc = "recv"] /\ UNCHANGED conn
    /\ UNCHANGED <<bind_vars, group_vars, _stop, _server_thread, ctl, now>>

\* What recv returns: -1 with another errno after a reset, the bytes that have
\* arrived, 0 once the client has shut down, -1 with EAGAIN otherwise.
recv(c) ==
    IF conn[c].peer = "reset" THEN "error"
    ELSE IF conn[c].wire # <<>> THEN "data"
    ELSE IF conn[c].peer = "closed" THEN "data"
    ELSE "EAGAIN"

\* The read loop from recv on: the bytes received (none, at end of stream) are
\* appended to data, whose last four bytes are read back into buf and compared
\* with CRLFCRLF; only EAGAIN looks at the clock.
handle_request_recv(w) ==
    /\ srv[w].pc = "recv"
    /\ LET c == srv[w].server IN
       CASE recv(c) = "error" -> handle_request_return(w, TRUE, "recv_error")
         [] recv(c) = "EAGAIN" ->
              IF now > srv[w].request_timeout_time
              THEN handle_request_return(w, TRUE, "timeout_read")
              ELSE srv' = [srv EXCEPT ![w].pc = "read_stop"] /\ UNCHANGED conn
         [] OTHER ->
              LET received == conn[c].wire
                  data == stream_seekg(stream_write(srv[w].data, received))
                  buf == stream_read(data, recv_into(srv[w].buf, received))
              IN /\ conn' = [conn EXCEPT ![c].wire = <<>>]
                 /\ \E equal \in strncmp_equal(buf) :
                        srv' = [srv EXCEPT ![w].data = data, ![w].buf = buf,
                                           ![w].received = @ \o received,
                                           ![w].pc = IF equal THEN "do_http" ELSE "read_stop"]
    /\ UNCHANGED <<bind_vars, group_vars, _stop, _server_thread, ctl, now>>

\* Mutant: the snapshot is begun before the request line is looked at.
do_http_snapshot_first(w) ==
    /\ srv[w].pc = "do_http"
    /\ LET r == do_http_parse(srv[w].data)
           cb == callback_of(r.url)
       IN IF r.error # <<>>
          THEN /\ srv' = [srv EXCEPT ![w].pc = "send_stop",
                                     ![w].response = error_response(r.error),
                                     ![w].reply = error_response(r.error)]
               /\ stack' = [stack EXCEPT ![w] = <<Frame(Root, <<>>, "http")>>]
               /\ UNCHANGED <<os, delimiter>>
          ELSE /\ srv' = [srv EXCEPT ![w].pc = "format", ![w].cb = cb]
               /\ stack' = [stack EXCEPT ![w] = <<Frame(Root, <<>>, "http")>>]
               /\ os' = [os EXCEPT ![w] = content_open(cb, now)]
               /\ delimiter' = [delimiter EXCEPT ![w] = <<>>]
    /\ UNCHANGED <<bind_vars, registry_vars, _mutex, _stop, _server_thread, ctl, conn, now>>

\* do_http up to its call of json_format_items: a request that does not parse
\* is answered with error_response; otherwise content is opened and the
\* snapshot of the server's own group begins.
do_http(w) ==
    /\ srv[w].pc = "do_http"
    /\ LET r == do_http_parse(srv[w].data)
           cb == callback_of(r.url)
       IN IF r.error # <<>>
          THEN /\ srv' = [srv EXCEPT ![w].pc = "send_stop",
                                     ![w].response = error_response(r.error),
                                     ![w].reply = error_response(r.error)]
               /\ UNCHANGED <<stack, os, delimiter>>
          ELSE /\ srv' = [srv EXCEPT ![w].pc = "format", ![w].cb = cb]
               /\ stack' = [stack EXCEPT ![w] = <<Frame(Root, <<>>, "http")>>]
               /\ os' = [os EXCEPT ![w] = content_open(cb, now)]
               /\ delimiter' = [delimiter EXCEPT ![w] = <<>>]
    /\ UNCHANGED <<bind_vars, registry_vars, _mutex, _stop, _server_thread, ctl, conn, now>>

\* do_http after json_format_items has returned: content is closed and the
\* response is built around it.
do_http_respond(w) ==
    /\ srv[w].pc = "format"
    /\ ~InCall(w)
    /\ LET response == ok_response(srv[w].cb, os[w] \o content_close(srv[w].cb)) IN
       srv' = [srv EXCEPT ![w].pc = "send_stop", ![w].response = response,
                          ![w].reply = response]
    /\ os' = [os EXCEPT ![w] = <<>>]
    /\ delimiter' = [delimiter EXCEPT ![w] = <<>>]
    /\ UNCHANGED <<bind_vars, registry_vars, _mutex, stack, _stop, _server_thread, ctl, conn, now>>

\* The send loop: while (response.size()) { if (_stop) return false; ...
handle_request_send_stop(w) ==
    /\ srv[w].pc = "send_stop"
    /\ IF srv[w].response = <<>> THEN handle_request_return(w, TRUE, "sent")
       ELSE IF _stop THEN handle_request_return(w, FALSE, "stop_send")
       ELSE srv' = [srv EXCEPT ![w].pc = "send"] /\ UNCHANGED conn
    /\ UNCHANGED <<bind_vars, group_vars, _stop, _server_thread, ctl, now>>

\* What send can return for n bytes, with errno: the number it accepted (all,
\* or fewer), -1 with EAGAIN while the client does not read, -1 with another
\* errno once the client is gone.
send(c, n) ==
    IF conn[c].peer = "open"
    THEN {<<0 - 1, "EAGAIN">>, <<n, "">>, <<(n + 1) \div 2, "">>}
    ELSE {<<0 - 1, "EPIPE">>}

\* Mutant: after a send that took some bytes the response counts as sent.
response_erase_all(response, sent) == <<>>

\* response.erase(0, sent)
response_erase(response, sent) == SubSeq(response, sent + 1, Len(response))

\* The send loop from send on: send is handed response.c_str() and
\* response.size() and takes the first sent bytes, which are then erased from
\* response; only EAGAIN looks at the clock.
handle_request_send(w) ==
    /\ srv[w].pc = "send"
    /\ LET c == srv[w].server IN
       \E sent \in send(c, Len(srv[w].response)) :
           CASE sent[2] = "EPIPE" -> handle_request_return(w, TRUE, "send_error")
             [] sent[2] = "EAGAIN" ->
                  IF now > srv[w].request_timeout_time
                  THEN handle_request_return(w, TRUE, "timeout_send")
                  ELSE srv' = [srv EXCEPT ![w].pc = "send_stop"] /\ UNCHANGED conn
             [] OTHER ->
                  /\ conn' = [conn EXCEPT ![c].sent = @ + sent[1],
                                           ![c].sent_bytes = @ \o SubSeq(srv[w].response, 1, sent[1])]
                  /\ srv' = [srv EXCEPT ![w].pc = "send_stop",
                                ![w].response = response_erase(@, sent[1])]
    /\ UNCHANGED <<bind_vars, group_vars, _stop, _server_thread, ctl, now>>

\* One step of a serving thread.
serve(w) ==
    \/ serve_forever_loop(w)
    \/ serve_forever_sleep(w)
    \/ internal_serve_once_stop(w)
    \/ internal_serve_once_accept(w)
    \/ handle_request_set_non_blocking(w)
    \/ handle_request_read_stop(w)
    \/ handle_request_recv(w)
    \/ do_http(w)
    \/ json_format_items(w)
    \/ do_http_respond(w)
    \/ handle_request_send_stop(w)
    \/ handle_request_send(w)

\* The thread whose turn it is to enter the server: a thread that is in no
\* call and is not a worker still to be joined.
FreeThread ==
    LET free == {v \in Servers :
                    srv[v].call # "start" /\ srv[v].pc \in {"off", "returned", "exited", "thrown"}}
    IN IF free = {} THEN None ELSE CHOOSE v \in free : TRUE

\* serve_once(timeout), called by a thread of the application: it is
\* internal_serve_once, which first reads the clock for its accept deadline.
serve_once(w, timeout) ==
    /\ w = FreeThread
    /\ \A v \in Servers : srv[v].pc \in {"off", "returned", "exited", "thrown"}
    /\ srv' = [srv EXCEPT ![w] = [Idle EXCEPT !.pc = "accept_stop", !.call = "serve_once",
                                              !.accept_timeout_time = timeout,
                                              !.poll_wait = MIN_POLL_WAIT,
                                              !.pending = {c \in Clients : conn[c].state = "pending"},
                                              !.stopped = _stop]]
    /\ now' = 0
    /\ UNCHANGED <<bind_vars, group_vars, _stop, _server_thread, ctl, conn>>

\* serve_forever(sleep_time), called by a thread of the application: it
\* computes poll_wait before its loop.
serve_forever(w, sleep_time) ==
    /\ w = FreeThread
    /\ \A v \in Servers : srv[v].pc \in {"off", "returned", "exited", "thrown"}
    /\ srv' = [srv EXCEPT ![w] = [Idle EXCEPT !.pc = "loop", !.call = "serve_forever",
                                              !.sleep_time = sleep_time,
                                              !.poll_wait = poll_wait(sleep_time)]]
    /\ UNCHANGED <<bind_vars, group_vars, _stop, _server_thread, ctl, conn, now>>

-----------------------------------------------------------------------------
(* http_status_server::bind, called by every constructor, and port().        *)

\* The port the operating system gives a socket that is bound to port 0.
Ephemeral == 32768

\* What ::bind answers for port q: port 0 asks for any free port; a port in
\* use gives EADDRINUSE; any other port is bound, or refused for another reason.
os_bind(q) ==
    IF q = 0 THEN {"ok"}
    ELSE IF q \in net.in_use THEN {"EADDRINUSE"}
    ELSE {"ok", "EACCES"}

\* Mutant: the loop goes on two ports at a time.
next_port_by_two(p) == (p + 2) % 65536

\* ++_port, on a uint16_t
next_port(p) == (p + 1) % 65536

\* throw os_error(error): the lock_guard of bind() ends, the constructor fails.
bind_throw(error) ==
    /\ bnd' = [bnd EXCEPT !.pc = "failed", !.error = error]
    /\ _mutex' = [_mutex EXCEPT ![Root] = None]

\* bind: std::lock_guard<std::mutex> lock(_mutex); _socket = socket(AF_INET6, SOCK_STREAM, 0)
bind_socket(k) ==
    /\ bnd.pc = "new"
    /\ _mutex[Root] = None
    /\ \/ /\ _socket' = 3
          /\ bnd' = [bnd EXCEPT !.pc = "set_non_blocking"]
          /\ _mutex' = [_mutex EXCEPT ![Root] = k]
       \/ /\ _socket' = 0 - 1
          /\ bind_throw("failed to create socket")
    /\ UNCHANGED <<registry_vars, stack, os, delimiter, _stop, _server_thread, srv, ctl, conn,
                   now, _port, net>>

\* bind: set_non_blocking(_socket)
bind_set_non_blocking(k) ==
    /\ bnd.pc = "set_non_blocking"
    /\ \/ bnd' = [bnd EXCEPT !.pc = "setsockopt"] /\ UNCHANGED _mutex
       \/ bind_throw("failed to set socket to non blocking")
    /\ UNCHANGED <<registry_vars, stack, os, delimiter, _stop, _server_thread, srv, ctl, conn,
                   now, _socket, _port, net>>

\* bind: setsockopt(SO_REUSEADDR), then port_min and port_max from the
\* requested port, and the loop's _port = port_min.
bind_setsockopt(k) ==
    /\ bnd.pc = "setsockopt"
    /\ \/ /\ bnd' = [bnd EXCEPT !.pc = "loop",
                                !.port_min = IF _port # 0 THEN _port ELSE FirstPort,
                                !.port_max = IF _port # 0 THEN _port ELSE LastPort]
          /\ _port' = IF _port # 0 THEN _port ELSE FirstPort
          /\ UNCHANGED _mutex
       \/ bind_throw("failed to set socket options") /\ UNCHANGED _port
    /\ UNCHANGED <<registry_vars, stack, os, delimiter, _stop, _server_thread, srv, ctl, conn,
                   now, _socket, net>>

\* bind: one turn of for (_port = port_min; true; ++_port).
bind_loop(k) ==
    /\ bnd.pc = "loop"
    /\ IF _port > bnd.port_max
       THEN /\ bind_throw("could not bind socket on any port")
            /\ UNCHANGED <<_port, net>>
       ELSE \E res \in os_bind(_port) :
              /\ net' = [net EXCEPT !.tried = Append(@, _port),
                                    !.bound = IF res # "ok" THEN @
                                              ELSE IF _port = 0 THEN Ephemeral ELSE _port]
              /\ CASE res = "ok" ->
                        bnd' = [bnd EXCEPT !.pc = "listen"] /\ UNCHANGED <<_port, _mutex>>
                   [] res = "EADDRINUSE" ->
                        _port' = next_port(_port) /\ UNCHANGED <<bnd, _mutex>>
                   [] OTHER ->
                        bind_throw("could not bind socket on port") /\ UNCHANGED _port
    /\ UNCHANGED <<registry_vars, stack, os, delimiter, _stop, _server_thread, srv, ctl, conn,
                   now, _socket>>

\* bind: listen(_socket, 32), and the lock_guard ends.
bind_listen(k) ==
    /\ bnd.pc = "listen"
    /\ \/ /\ bnd' = [bnd EXCEPT !.pc = "done"]
          /\ _mutex' = [_mutex EXCEPT ![Root] = None]
       \/ bind_throw("could not listen to socket")
    /\ UNCHANGED <<registry_vars, stack, os, delimiter, _stop, _server_thread, srv, ctl, conn,
                   now, _socket, _port, net>>

bind(k) ==
    \/ bind_socket(k)
    \/ bind_set_non_blocking(k)
    \/ bind_setsockopt(k)
    \/ bind_loop(k)
    \/ bind_listen(k)

\* port(): under _mutex, return _port
port == _port

-----------------------------------------------------------------------------
(* http_status_server::start and stop.                                       *)

\* Mutant: start does not look at _server_thread.
start_needed_always == TRUE

\* start: if (!_server_thread)
start_needed == _server_thread = None

\* start: std::lock_guard<std::mutex> lock(_mutex)
start_lock(k) ==
    /\ ctl[k] = "idle"
    /\ _mutex[Root] = None
    /\ _mutex' = [_mutex EXCEPT ![Root] = k]
    /\ ctl' = [ctl EXCEPT ![k] = "start"]
    /\ UNCHANGED <<bind_vars, registry_vars, stack, os, delimiter, _stop, _server_thread, srv, conn, now>>

\* Mutant: start() clears the stop flag.
start_spawn_clears_stop(k) ==
    /\ ctl[k] = "start"
    /\ IF start_needed
       THEN /\ FreeThread # None
            /\ _server_thread' = FreeThread
            /\ srv' = [srv EXCEPT ![FreeThread] = [Idle EXCEPT !.pc = "loop", !.call = "start",
                                                       !.sleep_time = DefaultSleepTime,
                                                       !.poll_wait = poll_wait(DefaultSleepTime)]]
       ELSE UNCHANGED <<_server_thread, srv>>
    /\ _mutex' = [_mutex EXCEPT ![Root] = None]
    /\ ctl' = [ctl EXCEPT ![k] = "idle"]
    /\ _stop' = FALSE
    /\ UNCHANGED <<bind_vars, registry_vars, stack, os, delimiter, conn, now>>

\* start: under _mutex, the worker is created unless there is one; then the
\* lock_guard ends. The thread object of a worker that has finished stays until
\* stop() resets it.
start_spawn(k) ==
    /\ ctl[k] = "start"
    /\ IF start_needed
       THEN /\ FreeThread # None
            /\ _server_thread' = FreeThread
            /\ srv' = [srv EXCEPT ![FreeThread] = [Idle EXCEPT !.pc = "loop", !.call = "start",
                                                       !.sleep_time = DefaultSleepTime,
                                                       !.poll_wait = poll_wait(DefaultSleepTime)]]
       ELSE UNCHANGED <<_server_thread, srv>>
    /\ _mutex' = [_mutex EXCEPT ![Root] = None]
    /\ ctl' = [ctl EXCEPT ![k] = "idle"]
    /\ UNCHANGED <<bind_vars, registry_vars, stack, os, delimiter, _stop, conn, now>>

start(k) == start_lock(k) \/ start_spawn(k)

\* stop: _stop = true
stop_set(k) ==
    /\ ctl[k] = "idle"
    /\ _stop' = TRUE
    /\ ctl' = [ctl EXCEPT ![k] = "stop_lock"]
    /\ UNCHANGED <<bind_vars, group_vars, _server_thread, srv, conn, now>>

\* Mutant: stop() waits until no thread is inside serve_once or serve_forever.
stop_lock_after_calls(k) ==
    /\ ctl[k] = "stop_lock"
    /\ _mutex[Root] = None
    /\ \A w \in Servers : srv[w].pc \in {"off", "returned", "exited", "thrown"}
    /\ IF _server_thread = None
       THEN ctl' = [ctl EXCEPT ![k] = "idle"] /\ UNCHANGED _mutex
       ELSE ctl' = [ctl EXCEPT ![k] = "stop_join"] /\ _mutex' = [_mutex EXCEPT ![Root] = k]
    /\ UNCHANGED <<bind_vars, registry_vars, stack, os, delimiter, _stop, _server_thread, srv, conn, now>>

\* stop: std::lock_guard<std::mutex> lock(_mutex); with no worker it returns at once.
stop_lock(k) ==
    /\ ctl[k] = "stop_lock"
    /\ _mutex[Root] = None
    /\ IF _server_thread = None
       THEN ctl' = [ctl EXCEPT ![k] = "idle"] /\ UNCHANGED _mutex
       ELSE ctl' = [ctl EXCEPT ![k] = "stop_join"] /\ _mutex' = [_mutex EXCEPT ![Root] = k]
    /\ UNCHANGED <<bind_vars, registry_vars, stack, os, delimiter, _stop, _server_thread, srv, conn, now>>

\* stop: _server_thread->join(); _server_thread.reset(); and the lock_guard ends.
stop_join(k) ==
    /\ ctl[k] = "stop_join"
    /\ srv[_server_thread].pc \in {"exited", "thrown"}
    /\ _server_thread' = None
    /\ srv' = [srv EXCEPT ![_server_thread] = Idle]
    /\ _mutex' = [_mutex EXCEPT ![Root] = None]
    /\ ctl' = [ctl EXCEPT ![k] = "idle"]
    /\ UNCHANGED <<bind_vars, registry_vars, stack, os, delimiter, _stop, conn, now>>

stop(k) == stop_set(k) \/ stop_lock(k) \/ stop_join(k)

-----------------------------------------------------------------------------
(* The registry under concurrency: two snapshot threads, and an application  *)
(* thread that updates its variables under the shared mutex and registers    *)
(* values and groups.                                                        *)

\* No mutex is held and no thread is inside a call; in ThreadsInit the
\* application's variables have their first values as well.
CallsInit ==
    /\ _mutex = [g \in Groups |-> None]
    /\ value_mutex = None
    /\ app = [a \in Threads |-> [pc |-> "idle", locked |-> FALSE, k |-> 1, gen |-> 0,
                                 args |-> NoArgs]]
    /\ stack = [t \in Threads |-> <<>>]
    /\ os = [t \in Threads |-> <<>>]
    /\ delimiter = [t \in Threads |-> <<>>]
    /\ docs = [t \in Threads |-> <<>>]
    /\ parts = [t \in Threads |-> <<>>]
    /\ calls = [t \in Threads |-> NoCall]

ThreadsInit ==
    /\ CallsInit
    /\ mem = [v \in Vars |-> IF v \in UIntVars THEN UVal(0) ELSE SVal(0)]

\* Groups in which nothing is registered yet, and a server that is not started.
GroupInit ==
    /\ ThreadsInit
    /\ ServerInit
    /\ _values = [g \in Groups |-> <<>>]
    /\ _groups = [g \in Groups |-> <<>>]

\* One snapshot thread and one application thread on a root group built with
\* or without the shared mutex, to which the application may attach an empty
\* child group before it registers its values.
InitLock ==
    /\ GroupInit
    /\ _key_prefix = [g \in Groups |-> <<>>]
    /\ \E m \in BOOLEAN : _value_mutex = [g \in Groups |-> g = Root /\ m]

\* What the application registers as its n-th value: a scalar by pointer or
\* shared_ptr, then its other scalar by reference_wrapper or its string by
\* pointer; it has no more to register.
LockHandles(n) ==
    CASE n = 1 -> {[shape |-> "pointer", var |-> 1], [shape |-> "shared_ptr", var |-> 1]}
      [] n = 2 -> {[shape |-> "reference_wrapper", var |-> 2], [shape |-> "pointer", var |-> 3]}
      [] OTHER -> {}

NextLock ==
    \/ \E t \in Snapshotters : snapshot_call(t, Root, "drop")
    \/ \E t \in Snapshotters : json_format_items(t)
    \/ \E a \in Apps : app_lock(a) \/ app_write(a) \/ app_unlock(a)
    \/ \E a \in Apps, val \in LockHandles(Len(_values[Root]) + 1) :
           add_call(a, Root, val, <<"k">>, <<>>, 0, <<>>)
    \/ \E a \in Apps : add(a)
    \/ \E a \in Apps : /\ _values[Root] = <<>> /\ _groups[Root] = <<>>
                       /\ add_group_call(a, Root, Child, <<>>)
    \/ \E a \in Apps : add_group(a)

SpecLock == InitLock /\ [][NextLock]_vars

-----------------------------------------------------------------------------
(* Registration against a running snapshot: one snapshot thread, and an      *)
(* application thread that adds values and a child group, on a root and its  *)
(* child.                                                                    *)

InitAdd ==
    /\ GroupInit
    /\ _key_prefix = [g \in Groups |-> <<>>]
    /\ \E m \in BOOLEAN : _value_mutex = [g \in Groups |-> g = Child /\ m]

\* What the application registers as the n-th value of a group.
AddHandles(n) ==
    IF n = 1 THEN {[shape |-> "pointer", var |-> 1]} ELSE {[shape |-> "pointer", var |-> 3]}

NextAdd ==
    \/ \E t \in Snapshotters : snapshot_call(t, Root, "drop")
    \/ \E t \in Snapshotters : json_format_items(t)
    \/ \E a \in Apps, g \in {Root, Child} : \E val \in AddHandles(Len(_values[g]) + 1) :
           add_call(a, g, val, <<"k">>, <<>>, 0, <<>>)
    \/ \E a \in Apps : add(a)
    \/ \E a \in Apps : add_group_call(a, Root, Child, <<>>)
    \/ \E a \in Apps : add_group(a)

SpecAdd == InitAdd /\ [][NextAdd]_vars

-----------------------------------------------------------------------------
(* Formatting, as the unit tests and the hierarchy example drive it: one      *)
(* thread builds a hierarchy of groups without a value mutex, updates its     *)
(* variables, and takes snapshots of the root whose streams it compares.      *)

GrandChild == CHOOSE g \in Groups : g # Root /\ g # Child

\* glo::tag::COUNT, SIZE and LAST.
COUNT == <<"c", "o", "u", "n", "t">>
SIZE == <<"s", "i", "z", "e">>
LAST == <<"l", "a", "s", "t">>

\* The prefixes and keys of the hierarchy.
CachePrefix == <<"/", "c", "a", "c", "h", "e">>
AppPrefix == <<"/", "a", "p", "p">>
HitKey == <<"/", "h", "i", "t">>

\* The root is built without a key prefix (as the status server is) or with
\* one that needs escaping; the child is the example's "/cache" group.
InitFormat ==
    /\ GroupInit
    /\ \E r \in {<<>>, <<"/", "\"">>} :
           _key_prefix = [g \in Groups |-> IF g = Root THEN r
                                           ELSE IF g = Child THEN CachePrefix
                                           ELSE <<"/", "t">>]
    /\ _value_mutex = [g \in Groups |-> FALSE]

\* How many registrations have completed.
Registered ==
    LET n(g) == Len(_values[g]) + Len(_groups[g]) IN n(Root) + n(Child) + n(GrandChild)

\* The registrations of the thread, in the order it makes them.
FormatScript(n) ==
    CASE n = 0 -> {[NoArgs EXCEPT !.g = Child, !.val = [shape |-> sh, var |-> 1],
                                  !.key = HitKey, !.tags = <<COUNT>>, !.level = 2,
                                  !.desc = <<"H", "i", "t", "s", ".">>]
                      : sh \in {"pointer", "shared_ptr"}}
      [] n = 1 -> {[NoArgs EXCEPT !.g = Root, !.child = Child, !.prefix = AppPrefix]}
      [] n = 2 -> {[NoArgs EXCEPT !.g = Root, !.val = [shape |-> "reference_wrapper", var |-> 2],
                                  !.key = <<"n">>, !.tags = <<>>, !.level = 0,
                                  !.desc = <<"a", "\"", "\n">>]}
      [] n = 3 -> {[NoArgs EXCEPT !.g = Child, !.val = [shape |-> "pointer", var |-> 3],
                                  !.key = <<>>, !.tags = <<SIZE, LAST>>, !.level = 3,
                                  !.desc = <<>>]}
      [] n = 4 -> {[NoArgs EXCEPT !.g = Child, !.child = GrandChild, !.prefix = <<"/", "x">>]}
      [] n = 5 -> {[NoArgs EXCEPT !.g = GrandChild, !.val = [shape |-> "value", var |-> 3],
                                  !.key = <<"\\">>, !.tags = <<LAST>>, !.level = 1,
                                  !.desc = <<"d">>]}
      [] OTHER -> {}

NextFormat ==
    \/ \E a \in Apps : ~app[a].locked /\ snapshot_call(a, Root, "keep")
    \/ \E a \in Apps : json_format_items(a)
    \/ \E a \in Apps : app_lock(a) \/ app_write(a) \/ app_unlock(a)
    \/ \E a \in Apps, r \in FormatScript(Registered) :
           r.child = 0 /\ add_call(a, r.g, r.val, r.key, r.tags, r.level, r.desc)
    \/ \E a \in Apps : add(a)
    \/ \E a \in Apps, r \in FormatScript(Registered) :
           r.child # 0 /\ add_group_call(a, r.g, r.child, r.prefix)
    \/ \E a \in Apps : add_group(a)

SpecFormat == InitFormat /\ [][NextFormat]_vars

-----------------------------------------------------------------------------
(* One item, for every content of its texts: the application attaches a      *)
(* child group to the root, registers one value in the child, and takes      *)
(* snapshots of the root.                                                    *)

\* The bytes of the texts: a plain character, the two characters and some of
\* the control bytes escape_json is written for, DEL, and bytes of UTF-8
\* multi-byte sequences ("<c3><a4>" is a-umlaut).
ItemChars == {"a", "\"", "\\", "\n", "<00>", "<1f>", "<7f>", "<c3>", "<a4>"}

\* The longest key.
MaxText == 2

\* The texts of at most n bytes.
Texts(n) == UNION {[1..k -> ItemChars] : k \in 0..n}

\* The tags, descriptions and string values an item is registered with.
ItemTags == {<<>>, <<COUNT>>, <<SIZE, LAST>>, << <<"a", "\"">> >>, << <<"\n">>, COUNT >>}
ItemDescs == {<<>>, <<"\"", "\n">>}
ItemValues == {<<"a">>, <<"\\", "<1f>">>}

\* How the value is passed: a string by value or by pointer, a counter by pointer.
ItemHandles == {[shape |-> "value", var |-> 3], [shape |-> "pointer", var |-> 3],
                [shape |-> "pointer", var |-> 1]}

\* The registrations: every key with plain tags and description, and every
\* combination of tags, description and handle with every key of at most one byte.
ItemArgs ==
    {[NoArgs EXCEPT !.g = Child, !.val = [shape |-> "pointer", var |-> 3], !.key = key,
                    !.tags = <<COUNT>>, !.level = 1, !.desc = <<"d">>] : key \in Texts(MaxText)}
    \cup {[NoArgs EXCEPT !.g = Child, !.val = val, !.key = key, !.tags = tags, !.level = 1,
                         !.desc = desc] :
             key \in Texts(1), tags \in ItemTags, desc \in ItemDescs, val \in ItemHandles}

InitItem ==
    /\ CallsInit
    /\ ServerInit
    /\ \E s \in ItemValues : mem = [v \in Vars |-> IF v \in UIntVars THEN UVal(0) ELSE s]
    /\ _values = [g \in Groups |-> <<>>]
    /\ _groups = [g \in Groups |-> <<>>]
    /\ \E p \in {<<>>, <<"/", "\"">>} : _key_prefix = [g \in Groups |-> IF g = Child THEN p ELSE <<>>]
    /\ _value_mutex = [g \in Groups |-> FALSE]

NextItem ==
    \/ \E a \in Apps, prefix \in {<<>>, <<"\\", "<ff>">>} :
           _groups[Root] = <<>> /\ add_group_call(a, Root, Child, prefix)
    \/ \E a \in Apps : add_group(a)
    \/ \E a \in Apps, r \in ItemArgs :
           /\ _groups[Root] # <<>>
           /\ _values[Child] = <<>>
           /\ add_call(a, Child, r.val, r.key, r.tags, r.level, r.desc)
    \/ \E a \in Apps : add(a)
    \/ \E a \in Apps : _values[Child] # <<>> /\ snapshot_call(a, Root, "drop")
    \/ \E a \in Apps : json_format_items(a)

SpecItem == InitItem /\ [][NextItem]_vars

-----------------------------------------------------------------------------
(* The server at work: the application has registered a counter in the       *)
(* server (the root group) and attached the "/cache" group, which holds a    *)
(* string, under "/app"; both groups were given the application's mutex for  *)
(* their values; a thread starts the worker, and clients connect.            *)

\* The entry add makes for the arguments r.
EntryOf(r) == NewEntry(r.val, format_item_spec(r.g, r.key, r.tags, r.level, r.desc), r)

\* The application thread that starts and stops the server.
Operator == CHOOSE k \in Controllers : TRUE

InitServer ==
    /\ ThreadsInit
    /\ ServerInit
    /\ _key_prefix = [g \in Groups |-> IF g = Child THEN CachePrefix ELSE <<>>]
    /\ _value_mutex = [g \in Groups |-> g \in {Root, Child}]
    /\ _values = [g \in Groups |->
                    IF g = Root
                    THEN <<EntryOf([NoArgs EXCEPT !.g = Root, !.val = [shape |-> "pointer", var |-> 1],
                                                  !.key = HitKey, !.tags = <<COUNT>>, !.level = 2])>>
                    ELSE IF g = Child
                    THEN <<EntryOf([NoArgs EXCEPT !.g = Child, !.val = [shape |-> "pointer", var |-> 3],
                                                  !.tags = <<SIZE, LAST>>, !.desc = <<"\"">>])>>
                    ELSE <<>>]
    /\ _groups = [g \in Groups |-> IF g = Root THEN << <<AppPrefix, Child>> >> ELSE <<>>]

\* GET <url> HTTP/1.1 and the blank line.
Request(method, url, version) == method \o <<" ">> \o url \o <<" ">> \o version \o CRLFCRLF

\* What a client sends: nothing; a request it never completes; a request in
\* one piece or in two; a request the server refuses.
ServeScripts ==
    { <<>>,
      << <<"G", "E", "T", " ">> >>,
      << Request(GET, <<"/">>, HTTP11) >>,
      << <<"G", "E", "T", " ", "/", " ", "H", "T">>, <<"T", "P", "/", "1", ".", "1", "\r", "\n", "\r", "\n">> >>,
      << Request(<<"P", "U", "T">>, <<"/">>, HTTP11) >> }

NextServe ==
    \/ \E c \in Clients, script \in ServeScripts : client_connect(c, script)
    \/ \E c \in Clients : client_send(c)
    \/ \E c \in Clients, how \in {"closed", "reset"} : client_close(c, how)
    \/ _server_thread = None /\ start(Operator)
    \/ \E w \in Servers : serve(w)
    \/ tick

\* The scheduler runs a serving thread that can take a step, and time passes.
SpecServe ==
    /\ InitServer
    /\ [][NextServe]_vars
    /\ WF_vars(\E w \in Servers : serve(w))
    /\ WF_vars(tick)

\* With stop(): clients that send a whole request or nothing.
StopScripts == { <<>>, << Request(GET, <<"/">>, HTTP11) >> }

NextStop ==
    \/ \E c \in Clients, script \in StopScripts : client_connect(c, script)
    \/ \E c \in Clients : client_send(c)
    \/ \E c \in Clients, how \in {"closed", "reset"} : client_close(c, how)
    \/ _server_thread = None /\ start(Operator)
    \/ stop(Operator)
    \/ \E w \in Servers : serve(w)
    \/ tick

\* The scheduler runs a serving thread and a thread inside stop() that can
\* take a step, and time passes.
SpecStop ==
    /\ InitServer
    /\ [][NextStop]_vars
    /\ WF_vars(\E w \in Servers : serve(w))
    /\ WF_vars(\E k \in Controllers : stop_lock(k) \/ stop_join(k))
    /\ WF_vars(tick)

\* Requests of every form, each sent in one piece: a method, a target and a
\* version that may be empty, separated by a space or by nothing (among the
\* targets, one whose callback parameter comes second); a request
\* whose second space comes only in a header line; and two requests whose
\* first piece is shorter than four bytes.
HttpScripts ==
    { << method \o sp1 \o url \o sp2 \o version \o CRLFCRLF >> :
          method \in {<<>>, GET, <<"P", "U", "T">>},
          sp1 \in {<<>>, <<" ">>},
          url \in {<<>>, <<"/">>, <<"/", "?", "c", "a", "l", "l", "b", "a", "c", "k", "=", "f">>,
                   <<"/", "?", "x", "c", "a", "l", "l", "b", "a", "c", "k", "=", "1", "&", "c", "a", "l", "l", "b", "a", "c", "k", "=", "f">>},
          sp2 \in {<<>>, <<" ">>},
          version \in {<<>>, HTTP11, <<"H", "T", "T", "P", "/", "1", ".", "0">>} }
    \cup { << <<"G", "E", "T", " ", "/", "\r", "\n", "A", ":", " ", "H", "T", "T", "P", "/", "1", ".",
      "1", "\r", "\n", "\r", "\n">> >>,
           << <<"G">>, CRLFCRLF >>,
           << <<"G", "E">>, <<"T", " ", "/", " ", "H", "T", "T", "P", "/", "1", ".", "1", "\r", "\n", "\r", "\n">> >> }

HttpClients == {CHOOSE c \in Clients : TRUE}

NextHttp ==
    \/ \E c \in HttpClients, script \in HttpScripts : client_connect(c, script)
    \/ \E c \in HttpClients : client_send(c)
    \/ \E c \in HttpClients, how \in {"closed", "reset"} : client_close(c, how)
    \/ _server_thread = None /\ start(Operator)
    \/ \E w \in Servers : serve(w)
    \/ tick

SpecHttp == InitServer /\ [][NextHttp]_vars

\* Starting and stopping: two threads of the application call start() and
\* stop() as they like, and a client sends a request.
NextStart ==
    \/ \E c \in HttpClients, script \in StopScripts : client_connect(c, script)
    \/ \E c \in HttpClients : client_send(c)
    \/ \E c \in HttpClients, how \in {"closed", "reset"} : client_close(c, how)
    \/ \E k \in Controllers : start(k)
    \/ \E k \in Controllers : stop(k)
    \/ \E w \in Servers : serve(w)
    \/ tick

SpecStart == InitServer /\ [][NextStart]_vars

-----------------------------------------------------------------------------
(* Construction: http_status_server(port) with some ports taken by others.   *)

\* The ports asked for: 0 for the first free one of the range, or one port.
Requested == {0, 1, FirstPort, LastPort, 65534, 65535}

\* The ports other sockets hold: the first n of the range, for every n; the
\* range with gaps; single ports outside it.
InUse ==
    {FirstPort..n : n \in (FirstPort - 1)..LastPort}
    \cup { {FirstPort, FirstPort + 2}, (FirstPort..LastPort) \ {FirstPort + 5},
           {1}, {65535}, {65534, 65535} }

\* The members before the constructor's body runs: _socket{-1}, _port(port).
InitBind ==
    /\ ThreadsInit
    /\ MembersInit
    /\ _key_prefix = [g \in Groups |-> <<>>]
    /\ _value_mutex = [g \in Groups |-> FALSE]
    /\ _values = [g \in Groups |-> <<>>]
    /\ _groups = [g \in Groups |-> <<>>]
    /\ _socket = 0 - 1
    /\ \E p \in Requested :
          /\ _port = p
          /\ bnd = [pc |-> "new", port |-> p, port_min |-> 0, port_max |-> 0, error |-> "none"]
    /\ \E in_use \in InUse : net = [in_use |-> in_use, tried |-> <<>>, bound |-> 0 - 1]

NextBind == bind(Operator)

SpecBind == InitBind /\ [][NextBind]_vars

\* The longest accept timeout a caller of serve_once passes, in ticks.
MaxTimeout == 1

\* What a client sends: nothing, a request, or a request the server refuses.
CallScripts ==
    { <<>>, << Request(GET, <<"/">>, HTTP11) >>, << Request(<<"P", "U", "T">>, <<"/">>, HTTP11) >> }

\* The server without a worker: a thread of the application calls serve_once
\* and serve_forever itself, another thread calls stop(), and a client connects.
\* start() is never called here, so stop() finds no thread to join and consists
\* of setting the flag and of the test under _mutex.
NextCall ==
    \/ \E c \in HttpClients, script \in CallScripts : client_connect(c, script)
    \/ \E c \in HttpClients : client_send(c)
    \/ \E c \in HttpClients, how \in {"closed", "reset"} : client_close(c, how)
    \/ \E w \in Servers, timeout \in 0..MaxTimeout : serve_once(w, timeout)
    \/ \E w \in Servers : serve_forever(w, DefaultSleepTime)
    \/ stop_set(Operator)
    \/ stop_lock(Operator)
    \/ \E w \in Servers : serve(w)
    \/ tick

SpecCall ==
    /\ InitServer
    /\ [][NextCall]_vars
    /\ WF_vars(\E w \in Servers : serve(w))
    /\ WF_vars(\E k \in Controllers : stop_lock(k))
    /\ WF_vars(tick)

-----------------------------------------------------------------------------
(* Claims about the capture protocol, checked under SpecLock.                *)

\* The frames of all threads.
ActiveFrames == {x \in Threads \X (1..Cardinality(Groups) + 1) : x[2] <= Len(stack[x[1]])}
FrameOf(x) == stack[x[1]][x[2]]

\* C1: per-group snapshot atomicity. In a group built with the value mutex,
\* whose observed variables the application writes only inside critical
\* sections under that mutex, every value text one json_format_items call has
\* written for the group's direct values is the formatting of the value the
\* variable had in the one state in which the call took the value mutex: no
\* mix of the states before and after a critical section, no torn scalar.
C1_SnapshotAtomic ==
    \A x \in ActiveFrames :
        LET f == FrameOf(x) IN
        _value_mutex[f.g] =>
            \A i \in 1..Len(f.out) :
                LET e == _values[f.g][i] IN
                e.shape # "value" => f.out[i] = json_formatter(e.type, f.snap[e.var])

\* Both scalars of a locked group have been written out while the application
\* has already changed them again.
C1_Witness ==
    \E x \in ActiveFrames :
        LET f == FrameOf(x) IN
        /\ _value_mutex[f.g]
        /\ Len(f.out) >= 2
        /\ f.snap[1] = UVal(1) /\ f.snap[2] = UVal(1)
        /\ mem[1] # f.snap[1]

\* C4: for a pointer, reference_wrapper or shared_ptr to a fundamental scalar,
\* the only thing done under the value mutex is the copy into the private
\* field, and the JsonFormatter runs only when the snapshot thread does not
\* hold the value mutex.
C4_CopyLockedFormatUnlocked ==
    \A t \in Threads :
        LET c == calls[t] IN
        (c.shape \in CopyKinds /\ c.type = "uint") =>
            /\ c.op = "format" => ~c.value_locked
            /\ c.value_locked => c.op = "copy"
            /\ (c.op = "copy" /\ c.has_mutex) => c.value_locked

\* A shared_ptr to a scalar of a locked group has been copied under the mutex
\* and is now formatted without it.
C4_Witness ==
    \E t \in Threads :
        /\ calls[t] = [shape |-> "shared_ptr", type |-> "uint", op |-> "format",
                       value_locked |-> FALSE, has_mutex |-> TRUE]
        /\ value_mutex # t

\* C5: for any other handle (a pointer to std::string, an object held by
\* value) the JsonFormatter runs under the value mutex, into the entry's
\* scratch stream; the format phase writes the scratch stream out verbatim and
\* empties it, so a snapshot writes exactly the text its own prepare step rendered.
IsFallback(shape, type) == ~(shape \in CopyKinds /\ type = "uint")
C5_FallbackFormatsLocked ==
    /\ \A t \in Threads :
           LET c == calls[t] IN
           (c.op # "none" /\ IsFallback(c.shape, c.type)) =>
               /\ c.op = "format"
               /\ c.has_mutex => c.value_locked
    /\ \A x \in ActiveFrames :
           LET f == FrameOf(x) IN
           \A i \in 1..Len(f.out) :
               LET e == _values[f.g][i] IN
               IsFallback(e.shape, e.type) =>
                   /\ f.out[i] = f.rendered[i]
                   /\ e._prepared = <<>>
    /\ \A g \in Groups : _mutex[g] = None =>
           \A i \in 1..Len(_values[g]) :
               IsFallback(_values[g][i].shape, _values[g][i].type) =>
                   _values[g][i]._prepared = <<>>

\* A pointer to std::string of a locked group is written out for the second
\* time, after the string has changed.
C5_Witness ==
    \E x \in ActiveFrames :
        LET f == FrameOf(x) IN
        /\ _value_mutex[f.g]
        /\ Len(f.out) = 2
        /\ _values[f.g][2].shape = "pointer"
        /\ _values[f.g][2].type = "string"
        /\ f.out[2] = json_format_string(SVal(1))
        /\ mem[3] = SVal(0)

-----------------------------------------------------------------------------
(* Claims about registration against a running snapshot, checked under SpecAdd. *)

-----------------------------------------------------------------------------
(* Claims about the format of a snapshot, checked under SpecFormat.          *)

\* The stream that a sequence of written items amounts to.
RECURSIVE PartsText(_)
PartsText(ps) ==
    IF ps = <<>> THEN <<>>
    ELSE Head(ps).head \o Head(ps).value \o <<"}">> \o PartsText(Tail(ps))

EndsWith(str, suffix) ==
    /\ Len(str) >= Len(suffix)
    /\ SubSeq(str, Len(str) - Len(suffix) + 1, Len(str)) = suffix

\* C6: each snapshot's stream is, item after item, a static text that ends in
\* "value": followed by the value text and "}", in which the value text is the
\* formatting of the observed value as it was at that snapshot's prepare step;
\* and two snapshots of the same group with no add or add_group between them
\* have the same items with the same static texts, so they differ at most in
\* the value texts - for pointer, shared_ptr and reference_wrapper handles alike.
C6_OnlyValueChanges ==
    \A t \in Threads :
        /\ \A k \in 1..Len(docs[t]) :
               LET d == docs[t][k] IN
               /\ d.text = PartsText(d.parts)
               /\ \A n \in 1..Len(d.parts) :
                      /\ EndsWith(d.parts[n].head, <<"\"", "v", "a", "l", "u", "e", "\"", ":">>)
                      /\ d.parts[n].value = d.parts[n].observed
        /\ (Len(docs[t]) = 2 /\ docs[t][1].reg = docs[t][2].reg) =>
               /\ Len(docs[t][1].parts) = Len(docs[t][2].parts)
               /\ \A n \in 1..Len(docs[t][1].parts) :
                      docs[t][1].parts[n].head = docs[t][2].parts[n].head

\* Two snapshots of the same registry in which the scalar behind a shared_ptr
\* and the one behind a reference_wrapper were written as 0 and then as 263.
C6_Witness ==
    \E t \in Threads :
        /\ Len(docs[t]) = 2
        /\ docs[t][1].reg = docs[t][2].reg
        /\ docs[t][1].text # docs[t][2].text
        /\ \E n, m \in 1..Len(docs[t][1].parts) :
               LET p1 == docs[t][1].parts
                   p2 == docs[t][2].parts
               IN /\ _values[p1[n].g][p1[n].i].shape = "shared_ptr"
                  /\ _values[p1[m].g][p1[m].i].shape = "reference_wrapper"
                  /\ p1[n].value = <<"0">> /\ p2[n].value = <<"2", "6", "3">>
                  /\ p1[m].value = <<"0">> /\ p2[m].value = <<"2", "6", "3">>

\* The tags joined by '-'.
TagSuffix(tags) ==
    IF tags = <<>> THEN <<>>
    ELSE tags[1] \o Concat([k \in 1..(Len(tags) - 1) |-> <<"-">> \o tags[k + 1]])

\* The key of a written item as the chain of groups above it determines it.
KeyOf(p) ==
    LET a == _values[p.g][p.i].args IN
    escape_json(p.path \o _key_prefix[p.g] \o a.key) \o <<":">> \o TagSuffix(a.tags)

\* The items a thread has kept or is writing.
WrittenParts(t) ==
    {parts[t][n] : n \in 1..Len(parts[t])}
    \cup UNION {{docs[t][k].parts[n] : n \in 1..Len(docs[t][k].parts)} : k \in 1..Len(docs[t])}

\* C7: the key of every item written for a value that the snapshot reaches
\* from its root through a chain of groups is (JSON-escaped) the accumulated
\* prefix - from the root down, each ancestor's key prefix followed by the
\* prefix of the link to the next group - then the owning group's key prefix,
\* then the value's own key, then ':' and the tags joined by '-'; with no tags
\* the key ends in the bare ':'.
C7_KeyIsChainOfPrefixes ==
    \A t \in Threads : \A p \in WrittenParts(t) :
        LET a == _values[p.g][p.i].args IN
        /\ p.head = p.delim \o ItemOpen \o KeyOf(p)
                      \o <<"\"", ",", "\"", "l", "e", "v", "e", "l", "\"", ":">>
                      \o FormatUInt(a.level)
                      \o <<",", "\"", "d", "e", "s", "c", "\"", ":", "\"">>
                      \o escape_json(a.desc)
                      \o <<"\"", ",", "\"", "v", "a", "l", "u", "e", "\"", ":">>
        /\ a.tags = <<>> => EndsWith(KeyOf(p), <<":">>)

\* The example's key /app/cache/hit:count has been written, and so has an
\* item of the grandchild, two links below the root.
C7_Witness ==
    \E t \in Threads :
        /\ \E p \in WrittenParts(t) :
               /\ p.g = Child
               /\ p.path = AppPrefix
               /\ KeyOf(p) = <<"/", "a", "p", "p", "/", "c", "a", "c", "h", "e",
                               "/", "h", "i", "t", ":", "c", "o", "u", "n", "t">>
        /\ \E p \in WrittenParts(t) : p.g = GrandChild /\ p.path # <<>>
        /\ \E p \in WrittenParts(t) : _values[p.g][p.i].args.tags = <<>>

-----------------------------------------------------------------------------
(* Claims about the server, checked under SpecStop, SpecServe and SpecHttp.  *)

\* C3: under fair scheduling every call of stop() made while a worker started
\* by start() is running eventually returns, and when it returns the worker
\* has exited and the worker handle is cleared.
C3_StopReturns ==
    \A k \in Controllers :
        (ctl[k] # "idle") ~>
            (/\ ctl[k] = "idle"
             /\ _server_thread = None
             /\ \A w \in Servers : srv[w].pc \in {"off", "exited", "thrown"})

\* C8: every accepted connection is closed again, handle_request having
\* returned, whatever the client does: it sends nothing, it never completes
\* the request, it never reads the response, or it shuts its side down before
\* the request is complete.
C8_HandleRequestReturns ==
    \A c \in Clients : (conn[c].state = "open") ~> (conn[c].state = "closed")

\* C9: an accepted connection is open only while a serving thread is inside
\* the handle_request that handles it; once handle_request has returned or
\* thrown, on whatever path, the connection is closed.
C9_AcceptedConnectionClosed ==
    /\ \A c \in Clients :
           conn[c].state = "open" =>
               \E w \in Servers : srv[w].server = c /\ srv[w].pc \in HandlePcs
    /\ \A w \in Servers : srv[w].pc \notin HandlePcs => srv[w].server = None

\* One connection was closed when the time budget ran out during send, and
\* another when set_non_blocking threw.
C9_Witness ==
    \E c1, c2 \in Clients :
        /\ conn[c1].state = "closed" /\ conn[c1].why = "timeout_send"
        /\ conn[c2].state = "closed" /\ conn[c2].why = "throw"

\* The fields of a request line: the texts between its spaces.
RECURSIVE Fields(_)
Fields(line) ==
    LET first == getline(line, 0, " ") IN
    IF ~first.good THEN <<line>>
    ELSE <<first.token>> \o Fields(SubSeq(line, first.pos + 1, Len(line)))

\* METHOD SP target SP version CR, with method GET, a target and version HTTP/1.1.
WellFormed(request) ==
    LET line == getline(request, 0, "\r")
        fields == Fields(line.token)
    IN /\ line.good
       /\ Len(fields) = 3
       /\ fields[1] = GET
       /\ fields[2] # <<>>
       /\ fields[3] = HTTP11

StartsWith(str, prefix) ==
    Len(str) >= Len(prefix) /\ SubSeq(str, 1, Len(prefix)) = prefix

\* C10: a received request that is not of the accepted form is answered with
\* exactly HTTP/1.1 400 <reason> CRLF CRLF, and a request that is answered
\* with 200 has method GET, a target and version HTTP/1.1.
C10_OnlyWellFormedAnswered200 ==
    \A w \in Servers :
        srv[w].reply # <<>> =>
            IF WellFormed(srv[w].received)
            THEN StartsWith(srv[w].reply, <<"H", "T", "T", "P", "/", "1", ".", "1", " ", "2", "0", "0", " ", "O", "K", "\r", "\n">>)
            ELSE srv[w].reply \in {error_response(m) :
                     m \in {EmptyRequest, MissingMethod, OnlyGet, MissingUrl,
                            MissingVersion, OnlyHttp11}}
\* The values reachable from g: its own and, for the first k of its links,
\* those reachable from the linked group.
RECURSIVE ReachableValues(_, _)
ReachableValues(g, k) ==
    IF k = 0 THEN Len(_values[g])
    ELSE ReachableValues(g, k - 1)
         + ReachableValues(_groups[g][k][2], Len(_groups[_groups[g][k][2]]))

\* The number of places of str where what begins.
Occurrences(str, what) ==
    Cardinality({i \in 1..Len(str) : StartsWith(SubSeq(str, i, Len(str)), what)})

\* The JSON document of a response body: the body, or what a JSONP body has
\* between "name(" and ");".
JsonOf(body) ==
    IF body # <<>> /\ Head(body) = "{" THEN body
    ELSE SubSeq(body, find(body, <<"(">>, 0) + 2, Len(body) - 2)

\* What a 200 response has before its blank line, for a body of n bytes.
OkHeads(n) ==
    { <<"H", "T", "T", "P", "/", "1", ".", "1", " ", "2", "0", "0", " ", "O", "K", "\r", "\n">>
      \o type
      \o <<"C", "a", "c", "h", "e", "-", "C", "o", "n", "t", "r", "o", "l", ":", " ", "n", "o", "-", "c", "a", "c", "h", "e", ",", " ", "n", "o", "-", "s", "t", "o", "r", "e", "\r", "\n">>
      \o <<"C", "o", "n", "t", "e", "n", "t", "-", "L", "e", "n", "g", "t", "h", ":", " ">> \o FormatUInt(n) :
        type \in { <<"C", "o", "n", "t", "e", "n", "t", "-", "T", "y", "p", "e", ":", " ", "a", "p", "p", "l", "i", "c", "a", "t", "i", "o", "n", "/", "j", "s", "o", "n", ";", " ", "c", "h", "a", "r", "s", "e", "t", "=", "u", "t", "f", "-", "8", "\r", "\n">>,
                   <<"C", "o", "n", "t", "e", "n", "t", "-", "T", "y", "p", "e", ":", " ", "a", "p", "p", "l", "i", "c", "a", "t", "i", "o", "n", "/", "j", "a", "v", "a", "s", "c", "r", "i", "p", "t", ";", " ", "c", "h", "a", "r", "s", "e", "t", "=", "u", "t", "f", "-", "8", "\r", "\n">> } }

\* C11: for a well-formed request GET <target> HTTP/1.1, do_http returns the
\* status line HTTP/1.1 200 OK, then Content-Type, Cache-Control and
\* Content-Length in that order, a blank line and the body; Content-Length is
\* the length of the body, whose document is {"version":4,"timestamp":t,
\* "items":[...]} with one item for every value reachable from the server.
C11_OkResponse ==
    \A w \in Servers :
        (srv[w].reply # <<>> /\ ~srv[w].data.fail /\ WellFormed(srv[w].data.str)) =>
            LET reply == srv[w].reply
                split == find(reply, CRLFCRLF, 0)
                body == SubSeq(reply, split + 5, Len(reply))
                json == JsonOf(body)
                items == find(json, <<",", "\"", "i", "t", "e", "m", "s", "\"", ":", "[">>, 0)
                timestamp == SubSeq(json, 26, items)
            IN /\ split > 0
               /\ SubSeq(reply, 1, split) \in OkHeads(Len(body))
               /\ StartsWith(json, <<"{", "\"", "v", "e", "r", "s", "i", "o", "n", "\"", ":", "4", ",", "\"", "t", "i", "m", "e", "s", "t", "a", "m", "p", "\"", ":">>)
               /\ items >= 26
               /\ \A k \in 1..Len(timestamp) :
                      timestamp[k] \in {"0", "1", "2", "3", "4", "5", "6", "7", "8", "9"}
               /\ EndsWith(json, <<"]", "}">>)
               /\ Occurrences(json, ItemOpen)
                      = ReachableValues(Root, Len(_groups[Root]))

\* A well-formed request was answered, the server's two values in the body,
\* and the client has taken the whole response.
C11_Witness ==
    \E w \in Servers :
        /\ srv[w].pc = "send_stop"
        /\ srv[w].reply # <<>>
        /\ srv[w].response = <<>>
        /\ WellFormed(srv[w].data.str)
        /\ conn[srv[w].server].sent = Len(srv[w].reply)
        /\ ReachableValues(Root, Len(_groups[Root])) = 2

\* The target of a request: the second field of its request line.
TargetOf(request) == Fields(getline(request, 0, "\r").token)[2]

\* The names of the callback parameters of a target: for each "callback="
\* that follows a '?' or a '&', the text up to the next '&' or the end, if
\* it is not empty.
CallbackNames(target) ==
    UNION { { SubSeq(target, i + 10, j) :
                j \in {h \in (i + 10)..Len(target) :
                          /\ \A m \in (i + 10)..h : target[m] # "&"
                          /\ (h = Len(target) \/ target[h + 1] = "&")} } :
            i \in {h \in 1..Len(target) :
                      /\ target[h] \in {"?", "&"}
                      /\ StartsWith(SubSeq(target, h + 1, Len(target)), <<"c", "a", "l", "l", "b", "a", "c", "k", "=">>)} }

\* C12: a target with a parameter callback=<name> that follows a '?' or a
\* '&', wherever in the target it stands, is answered with Content-Type
\* application/javascript and the body <name>(<json>); every other target is
\* answered with Content-Type application/json and the bare JSON object.
C12_CallbackSelectsJsonp ==
    \A w \in Servers :
        (srv[w].reply # <<>> /\ ~srv[w].data.fail /\ WellFormed(srv[w].data.str)) =>
            LET reply == srv[w].reply
                split == find(reply, CRLFCRLF, 0)
                body == SubSeq(reply, split + 5, Len(reply))
                names == CallbackNames(TargetOf(srv[w].data.str))
                javascript == find(reply, <<"\r", "\n", "C", "o", "n", "t", "e", "n", "t", "-", "T", "y", "p", "e", ":", " ", "a", "p", "p", "l", "i", "c", "a", "t", "i", "o", "n", "/", "j", "a", "v", "a", "s", "c", "r", "i", "p", "t", ";", " ", "c", "h", "a", "r", "s", "e", "t", "=", "u", "t", "f", "-", "8", "\r", "\n">>, 0)
                json == find(reply, <<"\r", "\n", "C", "o", "n", "t", "e", "n", "t", "-", "T", "y", "p", "e", ":", " ", "a", "p", "p", "l", "i", "c", "a", "t", "i", "o", "n", "/", "j", "s", "o", "n", ";", " ", "c", "h", "a", "r", "s", "e", "t", "=", "u", "t", "f", "-", "8", "\r", "\n">>, 0)
            IN IF names # {}
               THEN /\ javascript > 0 /\ javascript < split
                    /\ \E name \in names : StartsWith(body, name \o <<"(", "{">>)
                    /\ EndsWith(body, <<"}", ")", ";">>)
               ELSE /\ json > 0 /\ json < split
                    /\ StartsWith(body, <<"{">>)
                    /\ EndsWith(body, <<"}">>)

-----------------------------------------------------------------------------
(* Claims about serve_once and serve_forever called directly, checked under  *)
(* SpecCall.                                                                 *)

\* C13 as claimed: serve_once returns true if and only if it accepted a
\* connection during the call.
C13_TrueIffAccepted ==
    \A w \in Servers :
        srv[w].pc = "returned" => (srv[w].ret = "true" <=> srv[w].accepted # None)

\* C13: serve_once returns false when the accept timeout elapsed or the stop
\* flag was observed, before a connection was accepted or while the accepted
\* one was read from or written to; it returns true for every other accepted
\* connection, whether the request was answered, refused, timed out or failed.
C13_FalseIffTimeoutOrStop ==
    \A w \in Servers :
        srv[w].pc = "returned" =>
            /\ srv[w].ret = "false" <=>
                   \/ srv[w].accepted = None
                   \/ conn[srv[w].accepted].why \in {"stop_read", "stop_send"}
            /\ srv[w].accepted # None => conn[srv[w].accepted].state = "closed"
            /\ (srv[w].ret = "false" /\ srv[w].why # "accept_timeout") => _stop

\* serve_once has returned false although it had accepted a connection: the
\* stop flag was seen while the response was being sent.
C13_Witness ==
    \E w \in Servers :
        /\ srv[w].pc = "returned"
        /\ srv[w].ret = "false"
        /\ srv[w].accepted # None
        /\ conn[srv[w].accepted].why = "stop_send"

\* C14: with no incoming connection and the stop flag clear, serve_once(t)
\* returns false (the call does not stay in its accept loop), and when it
\* returns false on account of the timeout, at least t has elapsed since the
\* call began.
C14_AcceptTimeout ==
    /\ [](\A w \in Servers :
              (srv[w].pc = "returned" /\ srv[w].why = "accept_timeout") =>
                  /\ srv[w].ret = "false"
                  /\ srv[w].accepted = None
                  /\ now >= srv[w].accept_timeout_time)
    /\ \A w \in Servers :
           (srv[w].call = "serve_once" /\ srv[w].pc \in {"accept_stop", "accept"}) ~>
               (srv[w].pc \in {"returned", "thrown"} \cup HandlePcs)

\* serve_once(MaxTimeout) has returned false with no connection and the stop flag clear.
C14_Witness ==
    \E w \in Servers :
        /\ srv[w].pc = "returned"
        /\ srv[w].why = "accept_timeout"
        /\ srv[w].accept_timeout_time = MaxTimeout
        /\ ~_stop
        /\ \A c \in Clients : conn[c].state = "none"

\* C16: serve_forever returns only after stop() has set the stop flag, and a
\* serve_forever that a thread runs itself, with no worker started, returns
\* (or has left by an exception) once another thread has called stop(),
\* wherever in the accept, read, build and send cycle it was.
C16_ServeForeverReturnsOnStop ==
    /\ [](\A w \in Servers : srv[w].pc = "exited" => _stop)
    /\ \A w \in Servers :
           (srv[w].call = "serve_forever" /\ _stop) ~> (srv[w].pc \in {"exited", "thrown"})

\* serve_forever, called directly, has returned after stop() was called while
\* it was reading a request.
C16_Witness ==
    \E w \in Servers, c \in Clients :
        /\ srv[w].call = "serve_forever"
        /\ srv[w].pc = "exited"
        /\ _server_thread = None
        /\ conn[c].why = "stop_read"

-----------------------------------------------------------------------------
(* Claims about the worker's loop and about start and stop, checked under    *)
(* SpecStop.                                                                 *)

\* A thread in serve_forever that has accepted a connection has slept
\* sleep_time since the connection it handled before, if there was one.
SleptBeforeAccept ==
    \A w \in Servers :
        (srv[w].call \in {"start", "serve_forever"} /\ srv[w].pc \in HandlePcs) =>
            srv[w].rested >= SleepTime

\* C15 as claimed: between the end of one handled connection and the
\* acceptance of the next serve_forever sleeps sleep_time, and each value lock
\* is taken at most once per sleep_time: the items of one response all come
\* from one critical section of the value lock.
C15_OneValueLockPerSleep ==
    /\ SleptBeforeAccept
    /\ \A w \in Servers : \A m, n \in 1..Len(parts[w]) :
           (_value_mutex[parts[w][m].g] /\ _value_mutex[parts[w][n].g]) =>
               (parts[w][m].g = parts[w][n].g /\ parts[w][m].path = parts[w][n].path)

\* C15: serve_forever sleeps sleep_time after every cycle that reported
\* progress, so that at least sleep_time passes between the end of one
\* handled connection and the acceptance of the next; it goes to sleep only
\* after such a cycle; and it holds the value lock only while it builds the
\* response of the one connection of a cycle.
C15_SleepsAfterProgress ==
    /\ []SleptBeforeAccept
    /\ [](\A w \in Servers : value_mutex = w => srv[w].pc = "format")
    /\ [][\A w \in Servers :
              (srv'[w].pc = "sleep" /\ srv[w].pc # "sleep") =>
                  /\ srv[w].pc \in HandlePcs
                  /\ conn'[srv[w].server].state = "closed"
                  /\ conn'[srv[w].server].why \notin {"stop_read", "stop_send"}]_vars

\* The worker holds the value lock for the second time while it answers its
\* second connection.
C15_Witness ==
    \E w \in Servers, c \in Clients :
        /\ srv[w].call = "start"
        /\ value_mutex = w
        /\ parts[w] # <<>>
        /\ conn[c].state = "closed"
        /\ conn[c].why = "sent"
        /\ srv[w].server # c

\* C17: start() is idempotent. At every moment at most one worker created by
\* start() exists, and it is the one the worker handle names; a start() call
\* that finds a worker creates none and leaves the stop flag, the worker
\* handle, the serving threads and the connections as they are.
C17_StartIdempotent ==
    /\ [](/\ Cardinality({w \in Servers : srv[w].call = "start"}) <= 1
          /\ \A w \in Servers : srv[w].call = "start" <=> _server_thread = w)
    /\ [][\A k \in Controllers :
              (ctl[k] = "start" /\ ctl'[k] = "idle" /\ _server_thread # None) =>
                  UNCHANGED <<_stop, _server_thread, srv, conn>>]_vars

\* A second thread is inside start(), holding the mutex, while the worker that
\* the first one created is handling a connection.
C17_Witness ==
    \E k \in Controllers, w \in Servers :
        /\ ctl[k] = "start"
        /\ _server_thread = w
        /\ srv[w].pc \in HandlePcs

\* C18: the server's lifecycle is Idle (no worker), Serving (a worker in the
\* serve loop) and Stopping (a stop() call in progress), and start() moves it
\* from Idle to Serving again after a completed stop(): also when the server
\* has served before (it has answered a connection), whenever a worker exists
\* and no stop() call is in progress, the worker is in its serve loop, where
\* it accepts connections and answers them.
C18_StartServesAgain ==
    \A w \in Servers :
        (/\ srv[w].call = "start"
         /\ \A k \in Controllers : ctl[k] = "idle"
         /\ \E c \in Clients : conn[c].why = "sent") =>
            srv[w].pc # "exited"

-----------------------------------------------------------------------------
(* Claims about bind and port().                                             *)

\* The ports of the automatic range that no other socket holds.
FreePorts == (FirstPort..LastPort) \ net.in_use

\* C19: with requested port 0, bind passes 22200, 22201, ... to the OS in
\* increasing order and never a port outside 22200..22240; every port it
\* went past was in use; when it has bound, the port is the lowest free one of
\* the range and port() returns it; with all 41 ports in use it never binds,
\* and the range is reported exhausted only when all 41 are in use.
C19_AutoPortScan ==
    bnd.port = 0 =>
        /\ \A i \in 1..Len(net.tried) :
              net.tried[i] = FirstPort + i - 1 /\ net.tried[i] \in FirstPort..LastPort
        /\ \A i \in 1..(Len(net.tried) - 1) : net.tried[i] \in net.in_use
        /\ bnd.pc \in {"listen", "done"} =>
              /\ net.bound \in FreePorts
              /\ \A q \in FreePorts : net.bound <= q
              /\ port = net.bound
              /\ port \in FirstPort..LastPort
        /\ FreePorts = {} => bnd.pc \notin {"listen", "done"}
        /\ (bnd.pc = "failed" /\ bnd.error = "could not bind socket on any port") =>
              /\ FreePorts = {}
              /\ Len(net.tried) = LastPort - FirstPort + 1

\* Port 0 was requested, the first ports of the range were taken, and the
\* server listens on a later one.
C19_Witness ==
    /\ bnd.port = 0
    /\ bnd.pc = "done"
    /\ Len(net.tried) > 2
    /\ port = net.tried[Len(net.tried)]

\* C20: with a requested port p in 1..65535, p is the only port passed to the
\* OS, and a constructed server is bound to p and port() returns p.
C20_OnlyRequestedPort ==
    bnd.port # 0 =>
        /\ \A i \in 1..Len(net.tried) : net.tried[i] = bnd.port
        /\ bnd.pc = "done" => (net.bound = bnd.port /\ port = bnd.port)

-----------------------------------------------------------------------------
(* Claims about stop() without a worker, checked under SpecCall.             *)

\* The positions at which a serving thread tests the stop flag.
AtStopCheck(w) ==
    \/ srv[w].pc \in {"loop", "accept_stop", "read_stop"}
    \/ srv[w].pc = "send_stop" /\ srv[w].response # <<>>

\* C21: stop() called when no worker was started returns without waiting for
\* a serve_once or serve_forever call of another thread: once it has set the
\* flag, the only thing it waits for is _mutex, it then returns in one step
\* that leaves every serving thread where it is, and it always returns; a
\* serving thread that reaches a stop check with the flag set leaves
\* internal_serve_once with false (serve_once returns false, serve_forever
\* goes back to its loop condition and returns).
C21_StopWithoutWorker ==
    /\ [](\A k \in Controllers :
            (ctl[k] = "stop_lock" /\ _server_thread = None /\ _mutex[Root] = None) =>
                ENABLED stop_lock(k))
    /\ [][\A k \in Controllers :
            (ctl[k] = "stop_lock" /\ ctl'[k] # "stop_lock" /\ _server_thread = None) =>
                (ctl'[k] = "idle" /\ srv' = srv)]_vars
    /\ \A k \in Controllers : (ctl[k] = "stop_lock") ~> (ctl[k] = "idle")
    /\ [][\A w \in Servers :
            (_stop /\ AtStopCheck(w) /\ srv'[w] # srv[w]) =>
                /\ srv'[w].pc \in {"returned", "loop", "exited"}
                /\ srv'[w].pc = "returned" => srv'[w].ret = "false"]_vars

\* stop() has returned while another thread's call is still handling a
\* connection it accepted before the flag was set.
C21_Witness ==
    /\ _stop
    /\ _server_thread = None
    /\ \A k \in Controllers : ctl[k] = "idle"
    /\ \E w \in Servers : srv[w].call \in {"serve_once", "serve_forever"} /\ srv[w].pc \in HandlePcs

-----------------------------------------------------------------------------
(* Claims about the registration lists, checked under SpecLock.              *)

\* Thread t is inside json_format_items of group g, past its lock_guard: it
\* reads, or is about to read, the group's _values and _groups.
InsideItems(t, g) ==
    \E d \in 1..Len(stack[t]) : stack[t][d].g = g /\ stack[t][d].pc # "lock"

-----------------------------------------------------------------------------
(* Claims about the text of one item, checked under SpecItem.                *)

\* A written item as text: what json_format put on the stream after the delimiter.
ItemText(p) == SubSeq(p.head, Len(p.delim) + 1, Len(p.head)) \o p.value \o <<"}">>

HexChars == {"0", "1", "2", "3", "4", "5", "6", "7", "8", "9", "a", "b", "c", "d", "e", "f"}
DecChars == {"0", "1", "2", "3", "4", "5", "6", "7", "8", "9"}

\* The byte a character of a text is.
ByteOf(c) == CharCode(c) % 256

\* Where the JSON string literal ends whose first character after the opening
\* quote is text[i]: the index after its closing quote, or 0 if the literal
\* holds a raw control character or a bad escape, or never ends.
RECURSIVE StringEnd(_, _)
StringEnd(text, i) ==
    IF i > Len(text) THEN 0
    ELSE IF text[i] = "\"" THEN i + 1
    ELSE IF ByteOf(text[i]) \in 0..31 THEN 0
    ELSE IF text[i] # "\\" THEN StringEnd(text, i + 1)
    ELSE IF i + 1 <= Len(text) /\ text[i + 1] \in {"\"", "\\", "/", "b", "f", "n", "r", "t"}
    THEN StringEnd(text, i + 2)
    ELSE IF /\ i + 5 <= Len(text)
            /\ text[i + 1] = "u"
            /\ \A k \in 2..5 : text[i + k] \in HexChars
    THEN StringEnd(text, i + 6)
    ELSE 0

RECURSIVE NumberEnd(_, _)
NumberEnd(text, i) ==
    IF i <= Len(text) /\ text[i] \in DecChars THEN NumberEnd(text, i + 1) ELSE i

\* The tokens of a JSON text from text[i] on; "bad" ends them where no token starts.
RECURSIVE Tokens(_, _)
Tokens(text, i) ==
    IF i > Len(text) THEN <<>>
    ELSE IF text[i] \in {"{", "}", ":", ","} THEN <<text[i]>> \o Tokens(text, i + 1)
    ELSE IF text[i] \in DecChars THEN <<"number">> \o Tokens(text, NumberEnd(text, i))
    ELSE IF text[i] = "\"" /\ StringEnd(text, i + 1) # 0
    THEN <<"string">> \o Tokens(text, StringEnd(text, i + 1))
    ELSE <<"bad">>

\* An object of four members whose values are a string, a number, a string
\* and a string or a number.
ValidItem(text) ==
    \E v \in {"string", "number"} :
        Tokens(text, 1) = <<"{", "string", ":", "string", ",", "string", ":", "number", ",",
                            "string", ":", "string", ",", "string", ":", v, "}">>

\* C23: whatever the key, tags, description and string value of a registered
\* value contain, every item json_format_items writes is a valid JSON object,
\* with no raw double quote, backslash or control character inside a string.
C23_ItemIsValidJson ==
    \A t \in Threads : \A n \in 1..Len(parts[t]) : ValidItem(ItemText(parts[t][n]))

\* What the claim says escape_json makes of one byte, and of a text.
MustEscape(c) == ByteOf(c) \in (0..31) \cup {34, 92}
EscapedByte(c) ==
    IF MustEscape(c)
    THEN <<"\\", "u", "0", "0">>
         \o SubSeq(<<"0", "1", "2", "3", "4", "5", "6", "7", "8", "9", "a", "b", "c", "d", "e", "f">>,
                   (ByteOf(c) \div 16) + 1, (ByteOf(c) \div 16) + 1)
         \o SubSeq(<<"0", "1", "2", "3", "4", "5", "6", "7", "8", "9", "a", "b", "c", "d", "e", "f">>,
                   (ByteOf(c) % 16) + 1, (ByteOf(c) % 16) + 1)
    ELSE <<c>>
EscapedText(s) == Concat([i \in 1..Len(s) |-> EscapedByte(s[i])])

\* C24: escape_json maps each byte on its own: the double quote, the
\* backslash and the control bytes become \u00 and two lowercase hex digits,
\* every other byte (those from 0x80 on too) is copied, and the result holds no
\* raw double quote or control byte. Checked on every text that passes through
\* escape_json: the group's prefix, the key and the description in the
\* item_spec of every entry, and the accumulated prefix and the string value
\* of every written item.
C24_EscapeJsonPerByte ==
    /\ \A g \in Groups : \A i \in 1..Len(_values[g]) :
          LET r == _values[g][i].args IN
          /\ _values[g][i].item_spec =
                 EscapedText(_key_prefix[g]) \o EscapedText(r.key) \o <<":">> \o JoinTags(r.tags, <<>>)
                 \o <<"\"", ",", "\"", "l", "e", "v", "e", "l", "\"", ":">> \o FormatUInt(r.level)
                 \o <<",", "\"", "d", "e", "s", "c", "\"", ":", "\"">> \o EscapedText(r.desc)
                 \o <<"\"", ",", "\"", "v", "a", "l", "u", "e", "\"", ":">>
          /\ \A s \in {escape_json(_key_prefix[g]), escape_json(r.key), escape_json(r.desc)} :
                \A k \in 1..Len(s) : s[k] # "\"" /\ ByteOf(s[k]) \notin 0..31
    /\ \A t \in Threads : \A n \in 1..Len(parts[t]) :
          LET p == parts[t][n]
              e == _values[p.g][p.i]
          IN /\ p.head = p.delim \o ItemOpen \o EscapedText(p.path) \o e.item_spec
             /\ e.type = "string" => p.value = <<"\"">> \o EscapedText(Deref(e)) \o <<"\"">>

\* An item has been written whose key holds a byte that is escaped and a byte
\* of a multi-byte sequence, under a prefix that holds a backslash and 0xff.
C24_Witness ==
    \E t \in Threads : \E n \in 1..Len(parts[t]) :
        LET p == parts[t][n]
            key == _values[p.g][p.i].args.key
        IN /\ Len(key) = 2
           /\ MustEscape(key[1])
           /\ ByteOf(key[2]) >= 128
           /\ p.path # <<>>

-----------------------------------------------------------------------------
(* Claims about failures, checked under SpecServe.                           *)

\* The paths on which handle_request ends a connection without the stop flag
\* and without throwing: the response (200 or 400) was sent, recv or send
\* failed with another error than would-block, or the time budget ran out.
RequestEnds == {"sent", "recv_error", "send_error", "timeout_read", "timeout_send"}

\* C25: a failure of one request does not stop the server. The step that ends
\* a connection on one of these paths leaves the worker in serve_forever, on
\* its way to the sleep and the next accept, and leaves the worker handle
\* alone; the worker returns from serve_forever only with the stop flag set;
\* and after a connection has ended so, a waiting connection whose well-formed
\* request has arrived is accepted and ended in its turn: answered with 200,
\* unless its client resets it or does not read (send error, send timeout) or
\* an OS call throws.
C25_ServerSurvivesRequestFailure ==
    /\ [][\A w \in Servers : \A c \in Clients :
            (srv[w].server = c /\ conn[c].state = "open" /\ conn'[c].why \in RequestEnds) =>
                (srv'[w].pc = "sleep" /\ srv'[w].call = srv[w].call
                 /\ _server_thread' = _server_thread)]_vars
    /\ [](\A w \in Servers : srv[w].pc = "exited" => _stop)
    /\ \A c \in Clients : \A d \in Clients \ {c} :
          (/\ conn[c].state = "closed" /\ conn[c].why \in RequestEnds
           /\ conn[d].state = "pending" /\ conn[d].wire = Request(GET, <<"/">>, HTTP11))
          ~> (\/ conn[d].why \in {"sent", "recv_error", "send_error", "timeout_send", "throw"}
              \/ \E w \in Servers : srv[w].pc = "thrown")

\* After a connection that was answered with 400 and closed, the worker has
\* sent the whole 200 response to a second one.
C25_Witness ==
    \E w \in Servers : \E c \in Clients :
        /\ conn[c].state = "closed" /\ conn[c].why = "sent" /\ conn[c].sent < 40
        /\ srv[w].pc = "send_stop"
        /\ srv[w].response = <<>>
        /\ srv[w].server # c
        /\ StartsWith(srv[w].reply, <<"H", "T", "T", "P", "/", "1", ".", "1", " ", "2", "0", "0">>)

-----------------------------------------------------------------------------
(* Claims about a failing accept, checked under SpecCall.                    *)

\* C26: an accept that fails with another error than would-block makes
\* internal_serve_once throw to its caller: the thread has left the call by
\* the exception, with no return value (it is not false) and with no
\* connection accepted, opened or closed by that step; the call takes no
\* further step (accept is not tried again); and the listening socket and the
\* port stay as bind() left them.
C26_AcceptFailureThrows ==
    /\ [](\A w \in Servers :
            srv[w].why = "accept_error" =>
                /\ srv[w].pc = "thrown"
                /\ srv[w].ret = "none"
                /\ srv[w].server = None /\ srv[w].accepted = None
                /\ ~ENABLED serve(w))
    /\ [][\A w \in Servers :
            (srv[w].why # "accept_error" /\ srv'[w].why = "accept_error") =>
                (srv[w].pc = "accept" /\ conn' = conn /\ bind_vars' = bind_vars)]_vars

\* serve_once has thrown out of accept while a connection was waiting to be
\* accepted; the connection still waits.
C26_Witness ==
    \E w \in Servers : \E c \in Clients :
        /\ srv[w].call = "serve_once"
        /\ srv[w].pc = "thrown"
        /\ srv[w].why = "accept_error"
        /\ conn[c].state = "pending"

-----------------------------------------------------------------------------
(* The poll interval, checked under SpecPoll: serve_forever is called with   *)
(* sleep times of several periods, below, at and above ten times the minimum.*)

\* The counts of the sleep times given to serve_forever.
SleepCounts == {0 - 1, 0, 1, 2, 3, 50, 1999, 2000, 2009, 2010, 2000000, 2019999}

SleepTimes == {[count |-> n, period |-> p] : n \in SleepCounts, p \in {"ns", "us", "ms"}}

InitPoll == InitServer

NextPoll ==
    \/ \E c \in HttpClients : client_connect(c, << Request(GET, <<"/">>, HTTP11) >>)
    \/ \E c \in HttpClients : client_send(c)
    \/ \E w \in Servers : serve_once(w, 0)
    \/ \E w \in Servers, sleep_time \in SleepTimes : serve_forever(w, sleep_time)
    \/ stop_set(Operator)
    \/ stop_lock(Operator)
    \/ \E w \in Servers : serve(w)
    \/ tick

SpecPoll == InitPoll /\ [][NextPoll]_vars

\* A thread that is inside a serving call.
InServe(w) == srv[w].pc \notin {"off", "returned", "exited", "thrown"}

\* poll <= d / 10, for a number of microseconds poll and a duration d,
\* compared as exact fractions.
AtMostTenth(poll, d) == poll * 10 * PeriodDen(d.period) <= d.count * PeriodNum(d.period)

\* C27 (as the code has it): the poll interval of serve_forever is never
\* below MIN_POLL_WAIT; when one tenth of sleep_time is at least MIN_POLL_WAIT
\* it is one tenth of sleep_time cut down to whole microseconds, and when one
\* tenth of sleep_time is less it is MIN_POLL_WAIT, which is then more than one
\* tenth of sleep_time. serve_once polls with MIN_POLL_WAIT. The interval
\* computed at the call stays the same for the accept, receive and send
\* retries of the call.
C27_PollWaitIsMaxOfMinimumAndTenth ==
    /\ [](\A w \in Servers :
            /\ (InServe(w) /\ srv[w].call = "serve_forever") =>
                  /\ srv[w].poll_wait >= MIN_POLL_WAIT
                  /\ AtMostTenth(MIN_POLL_WAIT, srv[w].sleep_time) =>
                        /\ AtMostTenth(srv[w].poll_wait, srv[w].sleep_time)
                        /\ ~AtMostTenth(srv[w].poll_wait + 1, srv[w].sleep_time)
                  /\ ~AtMostTenth(MIN_POLL_WAIT, srv[w].sleep_time) =>
                        srv[w].poll_wait = MIN_POLL_WAIT
            /\ (InServe(w) /\ srv[w].call = "serve_once") => srv[w].poll_wait = MIN_POLL_WAIT)
    /\ [][\A w \in Servers :
            (InServe(w) /\ srv'[w].pc \notin {"off", "returned", "thrown"}) =>
                srv'[w].poll_wait = srv[w].poll_wait]_vars

\* C27 (as stated): for every sleep_time the poll interval of serve_forever is
\* at least MIN_POLL_WAIT and at most one tenth of sleep_time.
C27_PollWaitWithinBounds ==
    \A w \in Servers :
        (InServe(w) /\ srv[w].call = "serve_forever") =>
            /\ srv[w].poll_wait >= MIN_POLL_WAIT
            /\ AtMostTenth(srv[w].poll_wait, srv[w].sleep_time)

\* A thread in serve_forever with a sleep_time of 2019999 ns waits for data of
\* an accepted connection with a poll interval of 201 microseconds.
C27_Witness ==
    \E w \in Servers :
        /\ srv[w].call = "serve_forever"
        /\ srv[w].pc = "recv"
        /\ srv[w].sleep_time = [count |-> 2019999, period |-> "ns"]
        /\ srv[w].poll_wait = 201

-----------------------------------------------------------------------------
(* The read loop, checked under SpecChunk: a client sends one well-formed    *)
(* request in every split into at most MaxChunks pieces, and every piece is  *)
(* received by a recv of its own or together with the pieces before it.      *)

\* The most pieces a request is sent in.
MaxChunks == 3

\* The request the client sends.
ChunkedRequest == Request(GET, <<"/">>, HTTP11)

\* The pieces of str between the cut positions cuts[1] <= cuts[2] <= ..., but
\* for the empty ones.
Chunks(str, cuts) ==
    LET n == Len(cuts)
        from(i) == IF i = 1 THEN 0 ELSE cuts[i - 1]
        to(i) == IF i = n + 1 THEN Len(str) ELSE cuts[i]
    IN SelectSeq([i \in 1..(n + 1) |-> SubSeq(str, from(i) + 1, to(i))], LAMBDA p : p # <<>>)

\* Every way to send str in at most n pieces.
Splits(str, n) ==
    { Chunks(str, cuts) : cuts \in {f \in [1..(n - 1) -> 0..Len(str)] :
                                        \A i \in 1..(n - 2) : f[i] <= f[i + 1]} }

NextChunk ==
    \/ \E c \in HttpClients, script \in Splits(ChunkedRequest, MaxChunks) : client_connect(c, script)
    \/ \E c \in HttpClients : client_send(c)
    \/ _server_thread = None /\ start(Operator)
    \/ \E w \in Servers : serve(w)
    \/ tick

SpecChunk == InitServer /\ [][NextChunk]_vars

\* C28: however a well-formed request is split into the chunks that recv
\* returns, the read loop goes on while the bytes received so far do not end
\* with CR LF CR LF and stops when they do, the stream handed to do_http holds
\* all the chunks in order, and the response built is a 200.
C28_ChunkedRequestIsRead ==
    \A w \in Servers :
        (srv[w].server # None) =>
            /\ (srv[w].pc \in {"read_stop", "recv"}) => ~EndsWith(srv[w].received, CRLFCRLF)
            /\ (srv[w].pc = "do_http") =>
                  /\ EndsWith(srv[w].received, CRLFCRLF)
                  /\ srv[w].data = [str |-> srv[w].received, fail |-> FALSE]
            /\ (srv[w].pc \in {"send_stop", "send"}) =>
                  StartsWith(srv[w].reply, <<"H", "T", "T", "P", "/", "1", ".", "1", " ", "2", "0", "0", " ">>)

-----------------------------------------------------------------------------
(* The send loop, checked under SpecHttp.                                    *)

\* A thread inside the send loop of handle_request.
InSendLoop(w) == srv[w].pc \in {"send_stop", "send"}

\* C29: during one connection the bytes that send has taken are, in order, a
\* prefix of the response do_http built, and what is left to send is the rest
\* of it: the next send starts at the byte after the last one taken, no byte
\* is sent twice or skipped. A send that would block takes nothing and the
\* thread goes round the loop again; and when handle_request finishes from the
\* send loop without stop, send error or timeout, the connection has got the
\* whole response, once.
C29_SendsResponseInOrder ==
    /\ [](\A w \in Servers :
            InSendLoop(w) =>
                /\ conn[srv[w].server].sent_bytes \o srv[w].response = srv[w].reply
                /\ conn[srv[w].server].sent = Len(conn[srv[w].server].sent_bytes))
    /\ [][\A w \in Servers :
            (srv[w].pc = "send" /\ srv'[w].pc # "send") =>
                LET c == srv[w].server IN
                \/ /\ srv'[w].pc = "send_stop"
                   /\ \E k \in 0..Len(srv[w].response) :
                         /\ conn'[c].sent_bytes = conn[c].sent_bytes \o SubSeq(srv[w].response, 1, k)
                         /\ srv'[w].response = SubSeq(srv[w].response, k + 1, Len(srv[w].response))
                         /\ k = 0 => now <= srv[w].request_timeout_time
                \/ /\ conn'[c].state = "closed"
                   /\ conn'[c].why \in {"send_error", "timeout_send"}]_vars
    /\ [][\A w \in Servers :
            (InSendLoop(w) /\ conn'[srv[w].server].state = "closed"
                 /\ conn'[srv[w].server].why = "sent") =>
                /\ conn[srv[w].server].sent_bytes = srv[w].reply
                /\ srv[w].reply # <<>>]_vars

\* After a partial write of a 200 response the thread is about to send the rest.
C29_Witness ==
    \E w \in Servers :
        /\ srv[w].pc = "send"
        /\ conn[srv[w].server].sent_bytes # <<>>
        /\ srv[w].response # <<>>
        /\ StartsWith(conn[srv[w].server].sent_bytes,
                      <<"H", "T", "T", "P", "/", "1", ".", "1", " ", "2", "0", "0", " ">>)

-----------------------------------------------------------------------------
(* The order of the items, checked under SpecTree: the groups are linked     *)
(* into every tree there is over them, one thread registers up to MaxValues  *)
(* values in each group, in any order, and takes snapshots of the root.      *)

\* The lists of children a group may have: none, one, or two different ones.
ChildLists ==
    {<<>>} \cup {<<c>> : c \in Groups \ {Root}}
           \cup {s \in [1..2 -> Groups \ {Root}] : s[1] # s[2]}

\* The trees: no group is attached twice, and none to itself or to a
\* descendant (a child has a higher number than its parent).
Trees ==
    {f \in [Groups -> ChildLists] :
        /\ \A g \in Groups : \A k \in 1..Len(f[g]) : f[g][k] > g
        /\ \A g \in Groups : \A h \in Groups \ {g} :
               \A k \in 1..Len(f[g]) : \A l \in 1..Len(f[h]) : f[g][k] # f[h][l]}

\* The key prefix of the link to a child, and the key of the n-th value of a group.
TreePrefix(child) == <<"/">> \o FormatUInt(child)
TreeKey(g, n) == <<"g">> \o FormatUInt(g) \o <<"v">> \o FormatUInt(n)

InitTree ==
    /\ ThreadsInit
    /\ ServerInit
    /\ _values = [g \in Groups |-> <<>>]
    /\ \E f \in Trees :
          _groups = [g \in Groups |-> [k \in 1..Len(f[g]) |-> <<TreePrefix(f[g][k]), f[g][k]>>]]
    /\ _key_prefix = [g \in Groups |-> <<>>]
    /\ _value_mutex = [g \in Groups |-> FALSE]

NextTree ==
    \/ \E a \in Apps, g \in Groups :
           add_call(a, g, [shape |-> "pointer", var |-> 1],
                    TreeKey(g, Len(_values[g]) + 1), <<>>, 0, <<>>)
    \/ \E a \in Apps : add(a)
    \/ \E a \in Apps : snapshot_call(a, Root, "drop")
    \/ \E a \in Apps : json_format_items(a)

SpecTree == InitTree /\ [][NextTree]_vars

\* The items of the subtree of g whose key prefix is key_prefix, in depth-first
\* pre-order: the values of g in insertion order, then the subtrees of the
\* first k children of g in attachment order.
RECURSIVE PreOrder(_, _, _)
PreOrder(g, key_prefix, k) ==
    IF k = 0
    THEN [i \in 1..Len(_values[g]) |->
             ItemOpen \o escape_json(key_prefix) \o _values[g][i].item_spec
                 \o json_formatter(_values[g][i].type, mem[_values[g][i].var]) \o <<"}">>]
    ELSE PreOrder(g, key_prefix, k - 1)
         \o PreOrder(_groups[g][k][2], key_prefix \o _key_prefix[g] \o _groups[g][k][1],
                     Len(_groups[_groups[g][k][2]]))

\* The texts joined by sep.
RECURSIVE Join(_, _)
Join(texts, sep) ==
    IF texts = <<>> THEN <<>>
    ELSE IF Len(texts) = 1 THEN texts[1]
    ELSE Head(texts) \o sep \o Join(Tail(texts), sep)

\* The outermost json_format_items of thread t has written its last item and
\* is about to return.
SnapshotDone(t) ==
    /\ Len(stack[t]) = 1
    /\ Top(t).pc = "format"
    /\ Top(t).i > Len(_values[Top(t).g])
    /\ Top(t).j > Len(_groups[Top(t).g])

\* C30: for every tree of groups, what json_format_items has written when it
\* returns is the items in depth-first pre-order (the values of a group in
\* insertion order, then the subtree of each child in attachment order) with
\* one comma between two consecutive items and none before the first, after
\* the last or next to another comma, also when the root, an inner group or a
\* leaf has no values.
C30_ItemsInPreOrder ==
    \A t \in Apps :
        SnapshotDone(t) =>
            /\ os[t] = Join(PreOrder(Root, <<>>, Len(_groups[Root])), <<",">>)
            /\ os[t] # <<>> => (os[t][1] # "," /\ os[t][Len(os[t])] # ",")
            /\ \A n \in 1..(Len(os[t]) - 1) : ~(os[t][n] = "," /\ os[t][n + 1] = ",")

\* A snapshot is complete of a root without values that has two children, of
\* which the first has no values and the second has two.
C30_Witness ==
    \E t \in Apps :
        /\ SnapshotDone(t)
        /\ _values[Root] = <<>>
        /\ Len(_groups[Root]) = 2
        /\ _values[_groups[Root][1][2]] = <<>>
        /\ Len(_values[_groups[Root][2][2]]) = 2
        /\ os[t] # <<>>

-----------------------------------------------------------------------------
(* The two locks of a group together, checked under SpecLock.                *)

\* Thread t is inside json_format_items and waits for the value mutex of the
\* group of its top frame, which thread a holds.
WaitsForValueLock(t, a) ==
    /\ InCall(t)
    /\ Top(t).pc = "value_lock"
    /\ _value_mutex[Top(t).g]
    /\ value_mutex = a

\* Thread a is inside add or add_group and waits for the _mutex of the group
\* it registers in, which thread t holds.
WaitsForStructuralLock(a, t) ==
    /\ app[a].pc \in {"add", "add_group"}
    /\ _mutex[app[a].args.g] = t

\* C31: the structural lock and the value lock of a group are independent:
\* whatever the interleaving of a snapshot with an application thread that
\* updates its variables under the value lock and calls add or add_group,
\* also while it holds the value lock, no two threads wait for each other.
C31_LocksIndependent ==
    \A t \in Threads : \A a \in Apps :
        ~(WaitsForValueLock(t, a) /\ WaitsForStructuralLock(a, t))

-----------------------------------------------------------------------------
(* Capture across groups, checked under SpecCross: the server's own group    *)
(* and the "/cache" group attached to it share the application's mutex; one  *)
(* thread takes snapshots of the root while the application updates its      *)
(* variables, both in each critical section.                                 *)

NextCross ==
    \/ \E t \in Snapshotters : snapshot_call(t, Root, "drop")
    \/ \E t \in Snapshotters : json_format_items(t)
    \/ \E a \in Apps : app_lock(a) \/ app_write(a) \/ app_unlock(a)

SpecCross == InitServer /\ [][NextCross]_vars

\* Thread t has captured a group and is on its way to capture a child of it.
BetweenCaptures(t) ==
    /\ Len(stack[t]) >= 2
    /\ Top(t).pc \in {"lock", "value_lock"}

\* C32: two groups that share a value lock are captured in two critical
\* sections: when a snapshot has captured the parent and not yet the child it
\* does not hold the lock, the child's capture begins by taking the free lock
\* again, and the variables may have changed in between, each frame keeping
\* what it saw when it took the lock. So a document can hold the parent's
\* values from before an update and the child's from after it (the witness).
C32_CapturedPerGroup ==
    /\ [](\A t \in Threads : BetweenCaptures(t) => value_mutex # t)
    /\ [][\A t \in Threads :
            (BetweenCaptures(t) /\ value_mutex' = t) =>
                /\ value_mutex = None
                /\ Top(t)'.snap = mem]_vars
    /\ [](\A t \in Threads : \A n \in 1..Len(parts[t]) :
            LET p == parts[t][n] IN
            _value_mutex[p.g] => p.value = p.observed)

\* A snapshot is complete whose document has the root's counter from before a
\* critical section of the application (0) and the child's string from after
\* it, while every critical section writes both.
C32_Witness ==
    \E t \in Snapshotters :
        /\ SnapshotDone(t)
        /\ Len(parts[t]) = 2
        /\ parts[t][1].g = Root /\ parts[t][1].value = json_formatter("uint", UVal(0))
        /\ parts[t][2].g = Child /\ parts[t][2].value = json_formatter("string", SVal(1))

-----------------------------------------------------------------------------
(* Groups attached more than once, checked under SpecDag: every group has up *)
(* to two links to groups below it, the same one twice if it likes, each     *)
(* link with a prefix of its own; all groups share the value mutex or have   *)
(* none; one thread registers values and takes snapshots of the root.        *)

\* The lists of children of group g: at most two groups with a higher number.
DagLists(g) ==
    LET below == {c \in Groups : c > g} IN
    {<<>>} \cup {<<c>> : c \in below} \cup [1..2 -> below]

\* The prefix of the k-th link of group g.
DagPrefix(g, k) == <<"/">> \o FormatUInt(g) \o <<"-">> \o FormatUInt(k)

InitDag ==
    /\ ThreadsInit
    /\ ServerInit
    /\ _values = [g \in Groups |-> <<>>]
    /\ \E f \in {h \in [Groups -> UNION {DagLists(g) : g \in Groups}] :
                    \A g \in Groups : h[g] \in DagLists(g)} :
          _groups = [g \in Groups |-> [k \in 1..Len(f[g]) |-> <<DagPrefix(g, k), f[g][k]>>]]
    /\ _key_prefix = [g \in Groups |-> IF g = Root THEN <<>> ELSE <<"g">> \o FormatUInt(g)]
    /\ \E m \in BOOLEAN : _value_mutex = [g \in Groups |-> m]

NextDag ==
    \/ \E a \in Apps, g \in Groups :
           add_call(a, g, [shape |-> "pointer", var |-> 1],
                    TreeKey(g, Len(_values[g]) + 1), <<>>, 0, <<>>)
    \/ \E a \in Apps : add(a)
    \/ \E a \in Apps : snapshot_call(a, Root, "drop")
    \/ \E a \in Apps : json_format_items(a)

\* A thread inside json_format_items is scheduled.
SpecDag == InitDag /\ [][NextDag]_vars /\ WF_vars(\E a \in Apps : json_format_items(a))

\* The visits a snapshot of g with key prefix key_prefix makes to g and through
\* the first k links of g: the group visited and the prefix accumulated on the
\* path to it.
RECURSIVE Visits(_, _, _)
Visits(g, key_prefix, k) ==
    IF k = 0 THEN {<<g, key_prefix>>}
    ELSE Visits(g, key_prefix, k - 1)
         \cup Visits(_groups[g][k][2], key_prefix \o _key_prefix[g] \o _groups[g][k][1],
                     Len(_groups[_groups[g][k][2]]))

\* The items a snapshot of the root has to write: every value of every visit,
\* as group, index and accumulated prefix.
DagItems ==
    UNION {{<<v[1], i, v[2]>> : i \in 1..Len(_values[v[1]])} :
              v \in Visits(Root, <<>>, Len(_groups[Root]))}

\* C33: a group attached more than once is rendered once per attachment: the
\* items a finished snapshot has written are, one for one, the values of the
\* groups on every path from the root, each with the key that begins with the
\* escaped prefix accumulated on its path, and the stream is these items; a
\* thread inside the snapshot never waits for a mutex it holds itself, and the
\* snapshot returns.
C33_RenderedOncePerPath ==
    /\ [](\A t \in Apps :
            SnapshotDone(t) =>
                /\ {<<parts[t][n].g, parts[t][n].i, parts[t][n].path>> : n \in 1..Len(parts[t])}
                       = DagItems
                /\ Len(parts[t]) = Cardinality(DagItems)
                /\ \A n \in 1..Len(parts[t]) :
                       LET p == parts[t][n] IN
                       p.head = p.delim \o ItemOpen \o escape_json(p.path)
                                    \o _values[p.g][p.i].item_spec
                /\ os[t] = PartsText(parts[t]))
    /\ [](\A t \in Apps :
            InCall(t) =>
                /\ Top(t).pc = "lock" => _mutex[Top(t).g] # t
                /\ (Top(t).pc = "value_lock" /\ _value_mutex[Top(t).g]) => value_mutex # t)
    /\ \A t \in Apps : InCall(t) ~> ~InCall(t)

\* A snapshot is complete in which a group with two values was visited four
\* times: it is attached twice to a group that is attached twice to the root.
C33_Witness ==
    \E t \in Apps :
        /\ SnapshotDone(t)
        /\ Len(_groups[Root]) = 2 /\ _groups[Root][1][2] = _groups[Root][2][2]
        /\ LET c == _groups[Root][1][2] IN
           /\ Len(_groups[c]) = 2 /\ _groups[c][1][2] = _groups[c][2][2]
           /\ Len(_values[_groups[c][1][2]]) = 2
           /\ Cardinality({n \in 1..Len(parts[t]) : parts[t][n].g = _groups[c][1][2]}) = 8
        /\ _value_mutex[Root]

\* C34: a thread inside json_format_items holds the value lock only in the
\* inner block of its innermost call, on a group that has the mutex; while it
\* holds it, it writes nothing to its stream, enters and leaves no call, and
\* changes entries of that group only; no two of its calls are in their inner
\* block at once, and it never waits for the value mutex while holding it, so
\* a parent and a child that share the mutex do not block the thread itself.
C34_ValueLockOnlyAroundPrepare ==
    /\ [](\A t \in Threads :
            InCall(t) =>
                /\ \A d \in 1..(Len(stack[t]) - 1) : stack[t][d].pc = "format"
                /\ value_mutex = t => (Top(t).pc = "prepare" /\ _value_mutex[Top(t).g])
                /\ Top(t).pc = "value_lock" => value_mutex # t)
    /\ [][\A t \in Threads :
            (InCall(t) /\ value_mutex = t) =>
                /\ os'[t] = os[t]
                /\ Len(stack'[t]) = Len(stack[t])
                /\ \A g \in Groups \ {Top(t).g} : _values'[g] = _values[g]]_vars

\* A thread that has written the root's item holds the shared value lock
\* again, inside the call on the child.
C34_Witness ==
    \E t \in Snapshotters :
        /\ Len(stack[t]) = 2
        /\ Top(t).g = Child
        /\ value_mutex = t
        /\ os[t] # <<>>

-----------------------------------------------------------------------------
(* One call against concurrent registration, checked under SpecAdd.          *)

\* C35: in every json_format_items call that has taken its locks, the entries
\* formatted so far are the first of the entries prepared, each written from
\* what this call's own prepare step rendered; nothing is formatted before
\* every entry of the group is prepared, every entry of the group is prepared
\* when the format loop runs and formatted when it is over: an entry that a
\* concurrent add appends is in the group before the call's prepare loop, and
\* is prepared and formatted, or after the call has returned.
C35_FormatsWhatItPrepared ==
    \A x \in ActiveFrames :
        LET f == FrameOf(x) IN
        f.pc \in {"prepare", "format"} =>
            /\ Len(f.out) <= Len(f.rendered)
            /\ Len(f.rendered) <= Len(_values[f.g])
            /\ \A i \in 1..Len(f.out) : f.out[i] = f.rendered[i]
            /\ f.pc = "prepare" =>
                  /\ f.out = <<>>
                  /\ Len(f.rendered) \in {f.i - 1, f.i}
            /\ f.pc = "format" =>
                  /\ Len(f.rendered) = Len(_values[f.g])
                  /\ Len(f.out) = f.i - 1
                  /\ f.i <= Len(_values[f.g]) + 1

\* A call on the root has formatted the root's entry and finished its format
\* loop while an add on the root is waiting.
C35_Witness ==
    \E a \in Apps : \E x \in ActiveFrames :
        LET f == FrameOf(x) IN
        /\ app[a].pc = "add"
        /\ app[a].args.g = f.g
        /\ f.pc = "format"
        /\ Len(f.out) = 1
        /\ f.i > Len(_values[f.g])

-----------------------------------------------------------------------------
(* Two snapshots at once, checked under SpecTwo: two threads of the server   *)
(* (its worker and a caller of serve_once, each inside do_http) call         *)
(* json_format_items on the server's group, or one of them on the attached   *)
(* group, while the application updates its variables.                       *)

NextTwo ==
    \/ \E t \in Servers, g \in {Root, Child} : snapshot_call(t, g, "drop")
    \/ \E t \in Servers : json_format_items(t)
    \/ \E a \in Apps : app_lock(a) \/ app_write(a) \/ app_unlock(a)

SpecTwo == InitServer /\ [][NextTwo]_vars

\* The calls that are between the prepare of entry i of group g and its format.
Holding(g, i) ==
    {x \in ActiveFrames :
        LET f == FrameOf(x) IN
        /\ f.g = g
        /\ \/ f.pc = "prepare" /\ f.i > i
           \/ f.pc = "format" /\ f.i <= i}

\* C36: when two threads snapshot the same group, one of the two calls on the
\* group is still waiting for the group's _mutex while the other is anywhere
\* between its prepare loop and its return; every value text a call has
\* written is the one its own prepare step rendered; and the scratch stream of
\* a fallback entry holds text only between the prepare and the format of one
\* call, the text that call rendered.
C36_SnapshotsDoNotInterleave ==
    /\ \A x \in ActiveFrames : \A y \in ActiveFrames :
          (x[1] # y[1] /\ FrameOf(x).g = FrameOf(y).g) =>
              (FrameOf(x).pc = "lock" \/ FrameOf(y).pc = "lock")
    /\ \A x \in ActiveFrames :
          \A i \in 1..Len(FrameOf(x).out) : FrameOf(x).out[i] = FrameOf(x).rendered[i]
    /\ \A g \in Groups : \A i \in 1..Len(_values[g]) :
          _values[g][i].kind = "fallback" =>
              IF _values[g][i]._prepared = <<>> THEN Holding(g, i) = {}
              ELSE /\ Cardinality(Holding(g, i)) = 1
                   /\ \A x \in Holding(g, i) : FrameOf(x).rendered[i] = _values[g][i]._prepared

\* One thread has written the root's counter as it was before the application
\* changed it and is inside the child, while the other thread waits for the
\* root's _mutex.
C36_Witness ==
    \E t \in Servers : \E u \in Servers \ {t} :
        /\ Len(stack[t]) = 2
        /\ stack[t][1].g = Root
        /\ stack[t][1].out = <<json_formatter("uint", UVal(0))>>
        /\ mem[1] = UVal(1)
        /\ Top(t).pc = "format"
        /\ Len(stack[u]) = 1
        /\ Top(u).g = Root
        /\ Top(u).pc = "lock"

-----------------------------------------------------------------------------
(* Requests that are refused.                                                *)

BadRequest == <<"H", "T", "T", "P", "/", "1", ".", "1", " ", "4", "0", "0", " ">>

\* The thread holds a lock of the registry: some group's _mutex or the mutex
\* of the values.
HoldsLock(w) == value_mutex = w \/ \E g \in Groups : _mutex[g] = w

\* C37: do_http decides on the request line before it calls json_format_items,
\* so a connection that is answered with 400 takes no snapshot. Outside the
\* position where do_http formats the items a serving thread is in no
\* json_format_items call and holds no lock; it reaches that position only
\* with a request that parsed; the step of do_http that builds a 400 response
\* goes straight to the send loop and leaves the locks, the entries with
\* their copies and scratch streams, and the output stream as they were; and
\* so does every later step of the thread on that connection.
C37_RefusedRequestTakesNoSnapshot ==
    /\ [](\A w \in Servers :
            /\ srv[w].pc # "format" => ~InCall(w) /\ ~HoldsLock(w)
            /\ srv[w].pc = "format" => do_http_parse(srv[w].data).error = <<>>
            /\ StartsWith(srv[w].reply, BadRequest) => srv[w].pc # "format")
    /\ [][\A w \in Servers :
            (srv[w].pc = "do_http" /\ StartsWith(srv'[w].reply, BadRequest)) =>
                /\ srv'[w].pc = "send_stop"
                /\ srv'[w].reply = error_response(do_http_parse(srv[w].data).error)
                /\ UNCHANGED <<_values, _mutex, value_mutex, stack, os, calls>>]_vars
    /\ [][\A w \in Servers :
            (InSendLoop(w) /\ StartsWith(srv[w].reply, BadRequest) /\ srv'[w] # srv[w]) =>
                UNCHANGED <<_values, _mutex, value_mutex, stack, os, calls>>]_vars

\* Witness: a 400 response has been sent whole to the client.
C37_Witness ==
    \E w \in Servers :
        /\ srv[w].pc = "send_stop"
        /\ StartsWith(srv[w].reply, BadRequest)
        /\ srv[w].response = <<>>
        /\ conn[srv[w].server].sent_bytes = srv[w].reply

-----------------------------------------------------------------------------
(* serve_once with a connection waiting.                                     *)

\* C38: internal_serve_once tests the stop flag, calls accept, and only after
\* an accept that found no connection compares the clock with the deadline.
\* So a serve_once call that began with a connection waiting, while the stop
\* flag has stayed clear: has, as long as it is in the accept loop, that
\* connection still to accept; handles a connection that was waiting when it
\* began; and when it has returned, has returned true after handle_request,
\* with that connection accepted and closed: never false, whatever the
\* timeout and however late the clock is. (An accept that fails with another
\* error than EAGAIN leaves by the exception instead.)
C38_PendingConnectionIsAccepted ==
    \A w \in Servers :
        (srv[w].call = "serve_once" /\ srv[w].pending # {} /\ ~_stop) =>
            /\ srv[w].pc \in {"accept_stop", "accept"} =>
                   \E c \in srv[w].pending : conn[c].state = "pending"
            /\ srv[w].pc \in HandlePcs => srv[w].server \in srv[w].pending
            /\ srv[w].pc = "returned" =>
                   /\ srv[w].ret = "true"
                   /\ srv[w].why \notin {"accept_timeout", "stop_accept"}
                   /\ srv[w].accepted \in srv[w].pending
                   /\ conn[srv[w].accepted].state = "closed"
            /\ srv[w].pc \in {"accept_stop", "accept", "returned", "thrown"} \cup HandlePcs

\* Witness: serve_once() with timeout zero, called with a connection waiting,
\* has returned true after answering it.
C38_Witness ==
    \E w \in Servers :
        /\ srv[w].call = "serve_once"
        /\ srv[w].pc = "returned"
        /\ srv[w].pending # {}
        /\ srv[w].accept_timeout_time = 0
        /\ srv[w].ret = "true"
        /\ srv[w].why = "sent"
        /\ ~_stop

-----------------------------------------------------------------------------
(* The stop flag over the whole life of the server.                          *)

\* No thread is inside serve_once or serve_forever.
NoneServing == \A v \in Servers : srv[v].pc \in {"off", "returned", "exited", "thrown"}

\* Every operation of the server: a thread of the application calls start()
\* and stop(), and, while no worker runs, serve_once and serve_forever itself;
\* a client connects.
NextFlag ==
    \/ \E c \in HttpClients, script \in StopScripts : client_connect(c, script)
    \/ \E c \in HttpClients : client_send(c)
    \/ \E c \in HttpClients, how \in {"closed", "reset"} : client_close(c, how)
    \/ NoneServing /\ start(Operator)
    \/ stop(Operator)
    \/ \E w \in Servers, timeout \in 0..MaxTimeout : serve_once(w, timeout)
    \/ \E w \in Servers : serve_forever(w, DefaultSleepTime)
    \/ \E w \in Servers : serve(w)
    \/ tick

SpecFlag == InitServer /\ [][NextFlag]_vars

\* C39: _stop is false after construction; no step of start, stop, serve_once
\* or serve_forever (or of anything else) takes it from true to false; and a
\* serve_once call that began with the flag set is either at the test of the
\* flag or has returned false from that test, having accepted no connection:
\* it never reaches accept, whether a connection waits or not.
C39_StopFlagMonotonic ==
    /\ ~_stop
    /\ [][_stop => _stop']_vars
    /\ [](\A w \in Servers :
            (srv[w].call = "serve_once" /\ srv[w].stopped) =>
                /\ _stop
                /\ srv[w].pc \in {"accept_stop", "returned"}
                /\ srv[w].server = None
                /\ srv[w].pc = "returned" =>
                       /\ srv[w].ret = "false"
                       /\ srv[w].why = "stop_accept"
                       /\ srv[w].accepted = None)

\* Witness: after a completed stop(), serve_once was called with a connection
\* waiting; it has returned false and the connection still waits.
C39_Witness ==
    \E w \in Servers :
        /\ srv[w].call = "serve_once"
        /\ srv[w].stopped
        /\ srv[w].pc = "returned"
        /\ srv[w].ret = "false"
        /\ srv[w].pending # {}
        /\ \A c \in srv[w].pending : conn[c].state = "pending"
        /\ ctl[Operator] = "idle"

====
